---- MODULE Spec2Model ----
(***************************************************************************)
(* State-machine model of the WireGuard multi-client control plane:        *)
(* groups (interfaces), clients (peers), the configuration files written   *)
(* under WG_CONFIG_PATH, and the OS interfaces driven through wg/wg-quick. *)
(*                                                                         *)
(* Text is modelled as sequences of characters (one-character strings);    *)
(* a rendered configuration is a sequence of lines, a line a sequence of   *)
(* text fragments.  IPv4 addresses are their 32-bit integer values.        *)
(***************************************************************************)
EXTENDS Integers, Sequences, FiniteSets, TLC

(***************************************************************************)
(* Bounds of the model                                                     *)
(***************************************************************************)
MaxClientId == 2
MaxRangeGroups == 2
MaxAllocGroups == 1
MaxAllocClientId == 4
MaxInactive == 1
MaxConcClientId == 2
MaxOpsClientId == 1
MaxSaveClientId == 1
MaxStatsClientId == 1
NumThreads == 2

(***************************************************************************)
(* Program constants                                                       *)
(***************************************************************************)
\* Python's None, returned by the allocators when no address is free
None == -1
\* routes/groups.py: data.get('listen_port', 51820)
DefaultListenPort == 51820
\* config.py: WG_CONFIG_PATH default
WG_CONFIG_PATH == "/etc/wireguard"
\* the directory wg-quick resolves a bare interface name in
WgQuickDir == "/etc/wireguard"
\* datetime.timezone.utc: offset 0
utc == 0
\* models/client.py: allowed_ips column default
DefaultAllowedIps ==
    <<"0", ".", "0", ".", "0", ".", "0", "/", "0", ",", " ", ":", ":", "/", "0">>

(***************************************************************************)
(* Text helpers                                                            *)
(***************************************************************************)
\* str.lower() on one character, for the letters the inputs use
LowerChar(c) ==
    CASE c = "A" -> "a"
      [] c = "B" -> "b"
      [] c = "P" -> "p"
      [] c = "S" -> "s"
      [] OTHER -> c

\* name.lower().replace(' ', '-').replace('/', '-')
PathName(name) ==
    [i \in 1..Len(name) |->
        LET c == LowerChar(name[i])
        IN IF c = " " \/ c = "/" THEN "-" ELSE c]

\* text.split('\n'): the pieces between newline characters
RECURSIVE SplitLines(_)
SplitLines(text) ==
    IF \A i \in 1..Len(text) : text[i] # "\n"
    THEN <<text>>
    ELSE LET k == CHOOSE i \in 1..Len(text) :
                     /\ text[i] = "\n"
                     /\ \A j \in 1..(i - 1) : text[j] # "\n"
         IN <<SubSeq(text, 1, k - 1)>> \o SplitLines(SubSeq(text, k + 1, Len(text)))

InterfaceHeader == <<"[", "I", "n", "t", "e", "r", "f", "a", "c", "e", "]">>
PeerHeader == <<"[", "P", "e", "e", "r", "]">>
ServerConfName == <<"s", "e", "r", "v", "e", "r">>

(***************************************************************************)
(* IPv4 helpers (python ipaddress)                                         *)
(***************************************************************************)
RECURSIVE Pow2(_)
Pow2(n) == IF n = 0 THEN 1 ELSE 2 * Pow2(n - 1)

Ip(a, b, c, d) == ((a * 256 + b) * 256 + c) * 256 + d

\* ipaddress.ip_network(text, strict=False) raises ValueError
InvalidRange(range) == range.prefix < 0 \/ range.prefix > 32

\* ipaddress.ip_network(text, strict=False): host bits are masked off
ip_network(range) ==
    [addr |-> range.addr - (range.addr % Pow2(32 - range.prefix)),
     prefix |-> range.prefix]

\* hosts() running up to and including the broadcast address
hosts_with_broadcast(net) ==
    IF net.prefix = 32 THEN <<net.addr>>
    ELSE IF net.prefix = 31 THEN <<net.addr, net.addr + 1>>
    ELSE [i \in 1..(Pow2(32 - net.prefix) - 1) |-> net.addr + i]

\* network.hosts(), ascending
hosts(net) ==
    IF net.prefix = 32 THEN <<net.addr>>
    ELSE IF net.prefix = 31 THEN <<net.addr, net.addr + 1>>
    ELSE [i \in 1..(Pow2(32 - net.prefix) - 2) |-> net.addr + i]

(***************************************************************************)
(* IPv6 helpers (python ipaddress).  An IPv6 range is the pair             *)
(* <<addr, prefix>> of the low bits of an address under the fixed upper    *)
(* bits fd00:: and a prefix length; <<>> is None or the empty string, and  *)
(* a one-element tuple is text that is no IPv6 network.                    *)
(***************************************************************************)
NoRangeV6 == <<>>
\* text ipaddress.ip_network rejects with ValueError
MalformedV6 == <<"malformed">>
\* text ipaddress.ip_network parses as an IPv4 network (version 4)
VersionFour == <<"10.0.0.0/24">>

\* ipaddress.ip_network(text, strict=False) raises ValueError
InvalidRangeV6(range) == Len(range) = 1 /\ range[1] = MalformedV6[1]

\* ipaddress.ip_network(text, strict=False): host bits are masked off;
\* an IPv4 text yields an IPv4 network
ip_network_v6(range) ==
    IF Len(range) = 2
    THEN <<range[1] - (range[1] % Pow2(128 - range[2])), range[2]>>
    ELSE range

\* network.version
version(net) == IF Len(net) = 2 THEN 6 ELSE 4

\* network.hosts() of an IPv6 network, ascending: every address but the
\* Subnet-Router anycast address
hosts_v6(net) ==
    IF net[2] = 128 THEN <<net[1]>>
    ELSE IF net[2] = 127 THEN <<net[1], net[1] + 1>>
    ELSE [i \in 1..(Pow2(128 - net[2]) - 1) |-> net[1] + i]

Range(seq) == {seq[i] : i \in 1..Len(seq)}

RECURSIVE SortedSeq(_)
SortedSeq(S) ==
    IF S = {} THEN <<>>
    ELSE LET m == CHOOSE x \in S : \A y \in S : x <= y
         IN <<m>> \o SortedSeq(S \ {m})

MaxOf(S) == IF S = {} THEN 0 ELSE CHOOSE x \in S : \A y \in S : y <= x

(***************************************************************************)
(* State                                                                   *)
(***************************************************************************)
VARIABLES
    groups,   \* table groups: id -> row
    clients,  \* table clients: id -> row
    dirs,     \* directories under WG_CONFIG_PATH
    fs,       \* files: path -> content
    wg,       \* OS interfaces that are up: name -> config path wg-quick read
    last,     \* the response of the last completed request
    req,      \* in-flight requests of the worker threads
    calls,    \* the file operations and tool invocations of the last step, in order
    raised,   \* whether an exception escaped the operation run in the last step
    wg_warning_shown  \* utils.wireguard._wg_warning_shown of the process

vars == <<groups, clients, dirs, fs, wg, last, req, calls, raised, wg_warning_shown>>

\* what an operation reads and changes; an operation starts with an empty
\* record of calls and no exception in flight
World ==
    [groups |-> groups, clients |-> clients, dirs |-> dirs, fs |-> fs, wg |-> wg,
     calls |-> <<>>, raised |-> FALSE]

\* the outcomes of the environment during one call chain: whether the wg
\* tools exist (else FileNotFoundError), whether spawning them works (else
\* another OSError such as PermissionError), whether wg-quick up / down
\* exit 0, whether the file operations succeed
Envs ==
    {e \in [installed : BOOLEAN, spawn_ok : BOOLEAN, up_ok : BOOLEAN,
            down_ok : BOOLEAN, mkdir_ok : BOOLEAN, write_ok : BOOLEAN,
            client_write_ok : BOOLEAN, remove_ok : BOOLEAN] :
        /\ (~e.installed \/ ~e.spawn_ok) => (~e.up_ok /\ ~e.down_ok)
        /\ ~e.installed => e.spawn_ok
        /\ ~e.write_ok => ~e.client_write_ok
        /\ ~e.mkdir_ok
              => (e.installed /\ e.spawn_ok /\ e.up_ok /\ e.down_ok /\ e.remove_ok
                     /\ ~e.write_ok)
        /\ (e.write_ok /\ ~e.client_write_ok)
              => (e.installed /\ e.spawn_ok /\ e.up_ok /\ e.down_ok /\ e.remove_ok)
        /\ ~e.remove_ok
              => (e.installed /\ e.spawn_ok /\ e.up_ok /\ e.down_ok /\ e.write_ok)}
\* the environment in which every tool call and every write succeeds
EnvOk == [installed |-> TRUE, spawn_ok |-> TRUE, up_ok |-> TRUE, down_ok |-> TRUE,
          mkdir_ok |-> TRUE, write_ok |-> TRUE, client_write_ok |-> TRUE,
          remove_ok |-> TRUE]
\* the environment in which no file can be written
EnvWriteFails == [EnvOk EXCEPT !.write_ok = FALSE, !.client_write_ok = FALSE]
\* the environment in which no directory can be created either
EnvMkdirFails == [EnvWriteFails EXCEPT !.mkdir_ok = FALSE]
\* every write succeeds, the tool calls have every outcome
ToolEnvs == {e \in Envs : e.mkdir_ok /\ e.write_ok /\ e.client_write_ok /\ e.remove_ok}
\* the tool calls succeed, a write succeeds or fails
WriteEnvs ==
    {e \in Envs : /\ e.installed /\ e.spawn_ok /\ e.up_ok /\ e.down_ok
                  /\ e.mkdir_ok /\ e.remove_ok /\ e.write_ok = e.client_write_ok}
\* the tool outcomes that can make a difference to a request on group g
ToolEnvsFor(gs, g) ==
    IF g \in DOMAIN gs /\ gs[g].is_running = TRUE THEN ToolEnvs ELSE {EnvOk}

Put(f, k, v) == [x \in DOMAIN f \cup {k} |-> IF x = k THEN v ELSE f[x]]
Drop(f, K) == [x \in DOMAIN f \ K |-> f[x]]

\* one entry of the record of calls: a file operation on a path or a tool
\* invocation on an interface, whether that interface was up at the call,
\* whether the process could be run at all, and whether it exited with 0
Call(kind, target, live, ran, ok) ==
    [kind |-> kind, target |-> target, live |-> live, ran |-> ran, ok |-> ok,
     stdout |-> <<>>]
\* a file operation recorded
Logged(w, kind, target) ==
    [w EXCEPT !.calls = Append(w.calls, Call(kind, target, FALSE, TRUE, TRUE))]
\* the exit status of a tool: wg-quick down and wg show need the interface
\* up, wg-quick up needs it down
ExitsZero(w, kind, ifname, env) ==
    /\ env.installed
    /\ env.spawn_ok
    /\ CASE kind = "down" -> ifname \in DOMAIN w.wg /\ env.down_ok
         [] kind = "up" -> ifname \notin DOMAIN w.wg /\ env.up_ok
         [] OTHER -> ifname \in DOMAIN w.wg
\* a subprocess.run of wg or wg-quick recorded
Spawned(w, kind, ifname, env) ==
    [w EXCEPT !.calls = Append(w.calls,
        Call(kind, ifname, ifname \in DOMAIN w.wg, env.installed /\ env.spawn_ok,
             ExitsZero(w, kind, ifname, env)))]

ClientsOf(w, g) == {c \in DOMAIN w.clients : w.clients[c].group_id = g}
ActiveClientsOf(w, g) == {c \in ClientsOf(w, g) : w.clients[c].is_active = TRUE}

(***************************************************************************)
(* Address allocator (models/group.py)                                     *)
(***************************************************************************)
\* the scan returning the last unused host instead of the first
LastUnused(hs, used, i) ==
    LET free == {k \in i..Len(hs) : hs[k] \notin used}
    IN IF free = {} THEN None ELSE hs[MaxOf(free)]

\* for ip in network.hosts(): if ip not in used_ips: return ip
RECURSIVE FirstUnused(_, _, _)
FirstUnused(hs, used, i) ==
    IF i > Len(hs) THEN None
    ELSE IF hs[i] \notin used THEN hs[i]
    ELSE FirstUnused(hs, used, i + 1)

\* the allocator counting only the addresses of active clients as used
get_next_available_ip_active_only(w, g) ==
    LET network == ip_network(w.groups[g].ip_range)
        used_ips == {w.groups[g].server_ip}
                       \cup {w.clients[c].assigned_ip : c \in ActiveClientsOf(w, g)}
    IN FirstUnused(hosts(network), used_ips, 1)

\* Group.get_next_available_ip
get_next_available_ip(w, g) ==
    LET network == ip_network(w.groups[g].ip_range)
        used_ips == {w.groups[g].server_ip}
                       \cup {w.clients[c].assigned_ip : c \in ClientsOf(w, g)}
    IN FirstUnused(hosts(network), used_ips, 1)

\* the scan of get_next_available_ip_v6 stops after this many used hosts
ScanLimit == 1000

\* Group.get_next_available_ip_v6
get_next_available_ip_v6(w, g) ==
    IF Len(w.groups[g].ip_range_v6) = 0 THEN None
    ELSE LET network == ip_network_v6(w.groups[g].ip_range_v6)
             used_ips == ({w.groups[g].server_ip_v6}
                             \cup {w.clients[c].assigned_ip_v6 : c \in ClientsOf(w, g)})
                            \ {None}
             hs == hosts_v6(network)
             scanned == IF Len(hs) > ScanLimit + 1 THEN SubSeq(hs, 1, ScanLimit + 1) ELSE hs
         IN FirstUnused(scanned, used_ips, 1)

\* Group.get_subnet_mask
get_subnet_mask(group) == ip_network(group.ip_range).prefix

(***************************************************************************)
(* Config renderer                                                         *)
(***************************************************************************)
DropRule(w, g, c) ==
    <<"iptables FORWARD -s ", w.clients[c].assigned_ip,
      " -d ", w.groups[g].ip_range, " ! -d ", w.groups[g].server_ip, " -j DROP">>

RECURSIVE Reverse(_)
Reverse(s) == IF s = <<>> THEN <<>> ELSE Reverse(Tail(s)) \o <<Head(s)>>

\* the "[Peer]" block generate_server_config emits for one active client
PeerStanza(w, c) ==
    << <<>>, PeerHeader >>
    \o SplitLines(<<"#", " ">> \o w.clients[c].name)
    \o << <<"PublicKey = ", w.clients[c].public_key>>,
          <<"AllowedIPs = ", w.clients[c].assigned_ip, "/32">> >>

RECURSIVE PeerStanzas(_, _)
PeerStanzas(w, cs) ==
    IF cs = <<>> THEN <<>>
    ELSE PeerStanza(w, Head(cs)) \o PeerStanzas(w, Tail(cs))

\* Group.generate_server_config: the lines of the server configuration
generate_server_config(w, g) ==
    LET group == w.groups[g]
        active_clients == SortedSeq(ActiveClientsOf(w, g))
        dropped == IF ~group.allow_client_to_client
                   THEN active_clients
                   ELSE SelectSeq(active_clients,
                                  LAMBDA c : ~w.clients[c].can_address_peers)
        drops == [i \in 1..Len(dropped) |-> DropRule(w, g, dropped[i])]
        postup_rules == <<"MASQUERADE", "FORWARD -i", "FORWARD -o">> \o drops
        postdown_rules == Reverse(drops) \o <<"MASQUERADE", "FORWARD -i", "FORWARD -o">>
    IN << InterfaceHeader,
          <<"PrivateKey = ", group.server_private_key>>,
          <<"Address = ", group.server_ip, "/", get_subnet_mask(group)>>,
          <<"ListenPort = ", group.listen_port>>,
          <<"PostUp = ", postup_rules>>,
          <<"PostDown = ", postdown_rules>> >>
       \o PeerStanzas(w, active_clients)

\* str(n) of a non-negative integer, as characters
RECURSIVE DecimalChars(_)
DecimalChars(n) ==
    IF n < 10 THEN <<ToString(n)>>
    ELSE DecimalChars(n \div 10) \o <<ToString(n % 10)>>

\* the dotted-quad text of an IPv4 address
DottedQuad(addr) ==
    DecimalChars(addr \div 16777216) \o <<".">>
        \o DecimalChars((addr \div 65536) % 256) \o <<".">>
        \o DecimalChars((addr \div 256) % 256) \o <<".">>
        \o DecimalChars(addr % 256)

\* f"{group.ip_range}": the text the group was created with
RangeText(range) == DottedQuad(range.addr) \o <<"/">> \o DecimalChars(range.prefix)

\* f"{group.ip_range_v6}": fd00::<low bits>/<prefix>
RangeTextV6(range_v6) ==
    <<"f", "d", "0", "0", ":", ":">>
        \o (IF range_v6[1] = 0 THEN <<>> ELSE DecimalChars(range_v6[1]))
        \o <<"/">> \o DecimalChars(range_v6[2])

\* pattern in text (str.__contains__)
Contains(text, pattern) ==
    \E i \in 1..(Len(text) - Len(pattern) + 1) :
        SubSeq(text, i, i + Len(pattern) - 1) = pattern

\* '0.0.0.0/0'
FullTunnelV4 == <<"0", ".", "0", ".", "0", ".", "0", "/", "0">>
\* '0.0.0.0/0, ::/0'
FullTunnel == FullTunnelV4 \o <<",", " ", ":", ":", "/", "0">>

\* the Address line of a client config
ClientAddressLine(client, group) ==
    <<"Address = ", client.assigned_ip, "/", get_subnet_mask(group)>>
        \o (IF client.assigned_ip_v6 # None /\ Len(group.ip_range_v6) # 0
            THEN <<", ", client.assigned_ip_v6, "/", ip_network_v6(group.ip_range_v6)[2]>>
            ELSE <<>>)

\* generate_client_config without the restriction of peer-to-peer routing
generate_client_config_unrestricted(w, c) ==
    LET client == w.clients[c]
        group == w.groups[client.group_id]
    IN << InterfaceHeader,
          <<"PrivateKey = ", client.private_key>>,
          ClientAddressLine(client, group),
          <<"DNS = ", "1.1.1.1, 8.8.8.8">>,
          <<"MTU = ", 1420>>,
          <<>>,
          PeerHeader,
          <<"PublicKey = ", group.server_public_key>>,
          <<"AllowedIPs = ", client.allowed_ips>>,
          <<"PersistentKeepalive = ", 25>> >>

\* Client.generate_client_config
generate_client_config(w, c) ==
    LET client == w.clients[c]
        group == w.groups[client.group_id]
        allowed_ips ==
            IF ~client.can_address_peers \/ ~group.allow_client_to_client
            THEN IF client.allowed_ips # <<>> /\ Contains(client.allowed_ips, FullTunnelV4)
                 THEN FullTunnel
                 ELSE RangeText(group.ip_range)
                         \o (IF Len(group.ip_range_v6) # 0
                             THEN <<",", " ">> \o RangeTextV6(group.ip_range_v6)
                             ELSE <<>>)
            ELSE client.allowed_ips
    IN << InterfaceHeader,
          <<"PrivateKey = ", client.private_key>>,
          ClientAddressLine(client, group),
          <<"DNS = ", "1.1.1.1, 8.8.8.8">>,
          <<"MTU = ", 1420>>,
          <<>>,
          PeerHeader,
          <<"PublicKey = ", group.server_public_key>>,
          <<"AllowedIPs = ", allowed_ips>>,
          <<"PersistentKeepalive = ", 25>> >>

\* number of lines of a rendered configuration that are the given header
RECURSIVE CountLines(_, _)
CountLines(config, header) ==
    IF config = <<>> THEN 0
    ELSE (IF Head(config) = header THEN 1 ELSE 0) + CountLines(Tail(config), header)

(***************************************************************************)
(* Paths                                                                   *)
(***************************************************************************)
\* Group.get_group_config_dir: os.path.join(WG_CONFIG_PATH, dirname)
get_group_config_dir(group) == <<WG_CONFIG_PATH, PathName(group.name)>>

\* os.path.join(group_dir, "server.conf"); the ".conf" suffix is implied
ServerFilePath(group) == get_group_config_dir(group) \o <<ServerConfName>>

\* os.path.join(group_dir, f"{name...}.conf")
ClientFilePath(w, c) ==
    get_group_config_dir(w.groups[w.clients[c].group_id])
        \o <<PathName(w.clients[c].name)>>

\* one interface name for every group
shared_interface_name(g) == <<"w", "g", "0">>

\* Group.get_wireguard_interface_name: f"wg{self.id}"
get_wireguard_interface_name(g) == <<"w", "g", ToString(g)>>

\* the file "wg-quick up <name>" reads: /etc/wireguard/<name>.conf
WgQuickConfigPath(ifname) == <<WgQuickDir, ifname>>

(***************************************************************************)
(* External tool wrappers (utils/wireguard.py).  Each returns the world    *)
(* after the call and the value returned to the caller.                    *)
(***************************************************************************)
\* stop_wireguard_interface reporting a non-zero exit of wg-quick down as a failure
stop_wireguard_interface_strict(w, ifname, env) ==
    LET w0 == Spawned(w, "down", ifname, env)
    IN IF ~env.installed \/ ~env.spawn_ok
       THEN [w |-> w0, ret |-> FALSE]
       ELSE IF ifname \in DOMAIN w.wg /\ env.down_ok
       THEN [w |-> [w0 EXCEPT !.wg = Drop(w.wg, {ifname})], ret |-> TRUE]
       ELSE [w |-> w0, ret |-> FALSE]

\* stop_wireguard_interface: "wg-quick down <name>"
stop_wireguard_interface(w, ifname, env) ==
    LET w0 == Spawned(w, "down", ifname, env)
    IN IF ~env.installed
       THEN [w |-> w0, ret |-> FALSE]                   \* except FileNotFoundError
       ELSE IF ~env.spawn_ok
       THEN [w |-> w0, ret |-> FALSE]                   \* except Exception
       ELSE IF ifname \in DOMAIN w.wg /\ env.down_ok
       THEN [w |-> [w0 EXCEPT !.wg = Drop(w.wg, {ifname})], ret |-> TRUE]
       ELSE [w |-> w0, ret |-> TRUE]                    \* non-zero exit: still True

\* start_wireguard_interface: exists(config_path), "wg show", "wg-quick up"
start_wireguard_interface(w, ifname, config_path, env) ==
    IF config_path \notin DOMAIN w.fs
    THEN [w |-> w, ret |-> FALSE]
    ELSE LET w0 == Spawned(w, "show", ifname, env)
         IN IF ~env.installed
            THEN [w |-> w0, ret |-> FALSE]              \* except FileNotFoundError
            ELSE IF ~env.spawn_ok                       \* no handler: propagates
            THEN [w |-> [w0 EXCEPT !.raised = TRUE], ret |-> FALSE]
            ELSE LET w1 == IF ifname \in DOMAIN w.wg
                           THEN stop_wireguard_interface(w0, ifname, env).w
                           ELSE w0
                     w2 == Spawned(w1, "up", ifname, env)
                 IN IF ifname \notin DOMAIN w1.wg /\ env.up_ok
                    THEN [w |-> [w2 EXCEPT !.wg = Put(w1.wg, ifname,
                                                      WgQuickConfigPath(ifname))],
                          ret |-> TRUE]
                    ELSE [w |-> w2, ret |-> FALSE]      \* except CalledProcessError

\* a reload that only starts
reload_without_stop(w, ifname, config_path, env) ==
    start_wireguard_interface(w, ifname, config_path, env)

\* reload_wireguard_interface: stop, then start
reload_wireguard_interface(w, ifname, config_path, env) ==
    start_wireguard_interface(stop_wireguard_interface(w, ifname, env).w,
                              ifname, config_path, env)

\* int(parts[i]) if parts[i] else 0: a field is <<>> (empty) or <<n>>
IntField(field) == IF field = <<>> THEN 0 ELSE field[1]

\* the loop of get_wireguard_stats over the lines after the header: a line
\* is its tab-separated parts, a line of fewer than six parts is skipped
RECURSIVE ParseLines(_, _)
ParseLines(lines, peers) ==
    IF lines = <<>> THEN peers
    ELSE LET parts == Head(lines)
         IN ParseLines(Tail(lines),
                IF Len(parts) >= 6
                THEN Put(peers, parts[1],
                         [latest_handshake |-> IntField(parts[5]),
                          received_bytes |-> IntField(parts[6]),
                          sent_bytes |-> IF Len(parts) > 6 THEN IntField(parts[7]) ELSE 0])
                ELSE peers)

\* get_wireguard_stats: "wg show <name> dump" parsed into a dict of peers,
\* or None; dump is the lines the tool prints for an interface that is up
get_wireguard_stats(w, ifname, env, dump) ==
    LET w0 == Spawned(w, "dump", ifname, env)
    IN IF ~env.installed \/ ~env.spawn_ok
       THEN [w |-> w0, ok |-> FALSE, peers |-> <<>>]    \* except Exception
       ELSE IF ifname \notin DOMAIN w.wg
       THEN [w |-> w0, ok |-> FALSE, peers |-> <<>>]    \* except CalledProcessError
       ELSE [w |-> [w0 EXCEPT !.calls[Len(w0.calls)].stdout = dump],
             ok |-> TRUE,
             peers |-> IF dump = <<>> THEN <<>> ELSE ParseLines(Tail(dump), <<>>)]

(***************************************************************************)
(* Interface lifecycle controller (models/group.py, models/client.py)      *)
(***************************************************************************)
\* start_wireguard with the flag set whatever reload returned
start_wireguard_unchecked(w, g, env) ==
    LET r == reload_wireguard_interface(w, get_wireguard_interface_name(g),
                                        ServerFilePath(w.groups[g]), env)
    IN [w |-> [r.w EXCEPT !.groups[g].is_running = TRUE], ret |-> r.ret]

\* Group.start_wireguard
start_wireguard(w, g, env) ==
    LET r == reload_wireguard_interface(w, get_wireguard_interface_name(g),
                                        ServerFilePath(w.groups[g]), env)
    IN IF r.ret
       THEN [w |-> [r.w EXCEPT !.groups[g].is_running = TRUE], ret |-> TRUE]
       ELSE [w |-> r.w, ret |-> FALSE]

\* Group.stop_wireguard
stop_wireguard(w, g, env) ==
    LET r == stop_wireguard_interface(w, get_wireguard_interface_name(g), env)
    IN IF r.ret
       THEN [w |-> [r.w EXCEPT !.groups[g].is_running = FALSE], ret |-> TRUE]
       ELSE [w |-> r.w, ret |-> FALSE]

\* os.makedirs(group_dir, exist_ok=True), called outside every try: the
\* exception of a directory that cannot be created leaves the caller
MakedirsRaises(w, group_dir, env) == group_dir \notin w.dirs /\ ~env.mkdir_ok

\* Client.save_client_config
save_client_config(w, c, env) ==
    LET group_dir == get_group_config_dir(w.groups[w.clients[c].group_id])
        w1 == [w EXCEPT !.dirs = w.dirs \cup {group_dir}]
    IN IF MakedirsRaises(w, group_dir, env)
       THEN [w |-> [Logged(w, "mkdir-failed", group_dir) EXCEPT !.raised = TRUE],
             ret |-> FALSE]
       ELSE IF env.client_write_ok
       THEN [w |-> [Logged(w1, "write", ClientFilePath(w1, c))
                       EXCEPT !.fs = Put(w1.fs, ClientFilePath(w1, c),
                                         generate_client_config(w1, c))],
             ret |-> TRUE]
       ELSE [w |-> Logged(w1, "write-failed", ClientFilePath(w1, c)), ret |-> FALSE]

RECURSIVE SaveClientConfigs(_, _, _)
SaveClientConfigs(w, cs, env) ==
    IF cs = <<>> THEN w
    ELSE SaveClientConfigs(save_client_config(w, Head(cs), env).w, Tail(cs), env)

\* the server-config write of save_server_config (makedirs, render, write)
WriteServerConfig(w, g, config_content) ==
    [Logged(w, "write", ServerFilePath(w.groups[g]))
        EXCEPT !.dirs = w.dirs \cup {get_group_config_dir(w.groups[g])},
               !.fs = Put(w.fs, ServerFilePath(w.groups[g]), config_content)]

\* os.remove of each of the files, in the order os.listdir gave them
RECURSIVE RemoveFiles(_, _, _)
RemoveFiles(w, paths, env) ==
    IF paths = {} THEN w
    ELSE LET p == CHOOSE x \in paths : TRUE
         IN IF ~env.remove_ok
            THEN Logged(w, "remove-failed", p)
            ELSE RemoveFiles([Logged(w, "remove", p) EXCEPT !.fs = Drop(w.fs, {p})],
                             paths \ {p}, env)

\* the rest of save_server_config reloading whatever is_running says
FinishServerConfigAlwaysReload(w, g, env) ==
    LET group_dir == get_group_config_dir(w.groups[g])
        active == SortedSeq(ActiveClientsOf(w, g))
        expected_client_files == {PathName(w.clients[c].name) : c \in Range(active)}
        w1 == SaveClientConfigs(w, active, env)
        obsolete == {p \in DOMAIN w1.fs :
                        /\ Len(p) = 3
                        /\ SubSeq(p, 1, 2) = group_dir
                        /\ p[3] # ServerConfName
                        /\ p[3] \notin expected_client_files}
    IN start_wireguard(RemoveFiles(w1, obsolete, env), g, env).w

\* the rest of save_server_config reloading before the client files are
\* written and the obsolete ones removed
FinishServerConfigReloadFirst(w, g, env) ==
    LET group_dir == get_group_config_dir(w.groups[g])
        active == SortedSeq(ActiveClientsOf(w, g))
        expected_client_files == {PathName(w.clients[c].name) : c \in Range(active)}
        w0 == IF w.groups[g].is_running = TRUE THEN start_wireguard(w, g, env).w ELSE w
        w1 == SaveClientConfigs(w0, active, env)
        obsolete == {p \in DOMAIN w1.fs :
                        /\ Len(p) = 3
                        /\ SubSeq(p, 1, 2) = group_dir
                        /\ p[3] # ServerConfName
                        /\ p[3] \notin expected_client_files}
    IN RemoveFiles(w1, obsolete, env)

\* save_server_config after the server file is written: client files,
\* pruning of obsolete files, reload when the group is marked running
FinishServerConfig(w, g, env) ==
    LET group_dir == get_group_config_dir(w.groups[g])
        active == SortedSeq(ActiveClientsOf(w, g))
        expected_client_files == {PathName(w.clients[c].name) : c \in Range(active)}
        w1 == SaveClientConfigs(w, active, env)
        obsolete == {p \in DOMAIN w1.fs :
                        /\ Len(p) = 3
                        /\ SubSeq(p, 1, 2) = group_dir
                        /\ p[3] # ServerConfName
                        /\ p[3] \notin expected_client_files}
        w2 == RemoveFiles(w1, obsolete, env)
    IN IF w2.groups[g].is_running = TRUE
       THEN start_wireguard(w2, g, env).w
       ELSE w2

\* Group.save_server_config; not reached when an exception has left the
\* handler before the call
save_server_config(w, g, env) ==
    IF w.raised
    THEN w
    ELSE IF MakedirsRaises(w, get_group_config_dir(w.groups[g]), env)
    THEN [Logged(w, "mkdir-failed", get_group_config_dir(w.groups[g]))
             EXCEPT !.raised = TRUE]
    ELSE IF ~env.write_ok
    THEN [Logged(w, "write-failed", ServerFilePath(w.groups[g]))
             EXCEPT !.dirs = w.dirs \cup {get_group_config_dir(w.groups[g])}]
    ELSE FinishServerConfig(WriteServerConfig(w, g, generate_server_config(w, g)), g, env)

(***************************************************************************)
(* Request handlers (routes/groups.py, routes/clients.py), run to          *)
(* completion by one worker                                                *)
(***************************************************************************)
\* what a request answered: the status code, the group it addressed, the row
\* it created or changed and its address, the outcome of a toggle
Resp(op, status, group, id, ip, toggled) ==
    [op |-> op, status |-> status, group |-> group, id |-> id, ip |-> ip,
     toggled |-> toggled]

Idle == [pc |-> "idle", op |-> "none", group |-> 0, client |-> 0,
         rendered |-> <<>>, ip |-> None, name |-> <<>>]

Commit(w) ==
    /\ groups' = w.groups
    /\ clients' = w.clients
    /\ dirs' = w.dirs
    /\ fs' = w.fs
    /\ wg' = w.wg
    /\ calls' = w.calls
    /\ raised' = w.raised
    /\ UNCHANGED wg_warning_shown   \* keys come from GenKey; see SpecKeys

\* a request answered before it changed or called anything
NoEffect == Commit(World)

\* the status of the response: 500 from the framework when an exception escaped
StatusOf(w, status) == IF w.raised THEN 500 ELSE status

\* generate_keypair: fresh key material, named after the row that gets it
GenKey(kind, id) == <<kind, id>>

NewGroupRow(id, name, range, port) ==
    [name |-> name,
     server_private_key |-> GenKey("server-private", id),
     server_public_key |-> GenKey("server-public", id),
     ip_range |-> range,
     server_ip |-> hosts(ip_network(range))[1],
     ip_range_v6 |-> NoRangeV6,
     server_ip_v6 |-> None,
     listen_port |-> IF port = None THEN DefaultListenPort ELSE port,
     allow_client_to_client |-> TRUE,
     is_running |-> FALSE]

\* the duplicate check of create_group: filter_by(ip_range=str(network))
RangeInUse(w, range) ==
    \E g \in DOMAIN w.groups : w.groups[g].ip_range = ip_network(range)

\* Group.query.filter_by(ip_range_v6=str(network_v6)).first()
RangeInUseV6(w, range_v6, others) ==
    \E g \in others : w.groups[g].ip_range_v6 = ip_network_v6(range_v6)

\* POST /api/groups
CreateGroupV6(name, range, range_v6, port, env) ==
    /\ IF \/ name = <<>> \/ InvalidRange(range) \/ RangeInUse(World, range)
          \/ /\ Len(range_v6) # 0
             /\ \/ InvalidRangeV6(range_v6)
                \/ version(ip_network_v6(range_v6)) # 6
                \/ RangeInUseV6(World, range_v6, DOMAIN groups)
       THEN /\ NoEffect
            /\ last' = Resp("create_group", 400, 0, 0, None, "none")
       ELSE LET id == MaxOf(DOMAIN groups) + 1
                row == [NewGroupRow(id, name, range, port) EXCEPT
                           !.ip_range_v6 = range_v6,
                           !.server_ip_v6 = IF Len(range_v6) = 0 THEN None
                                            ELSE hosts_v6(ip_network_v6(range_v6))[1]]
                w1 == [World EXCEPT !.groups = Put(groups, id, row)]
                w2 == save_server_config(w1, id, env)
            IN /\ Commit(w2)
               /\ last' = Resp("create_group", StatusOf(w2, 201), id, id,
                               w1.groups[id].server_ip, "none")
    /\ UNCHANGED req

\* POST /api/groups without ip_range_v6 in the payload
CreateGroup(name, range, port, env) == CreateGroupV6(name, range, NoRangeV6, port, env)

\* update_group: the fields the payload sets on the group row
ApplyGroupUpdate(row, data) ==
    LET named == [row EXCEPT !.name = IF "name" \in DOMAIN data THEN data.name ELSE @]
    IN IF "ip_range_v6" \notin DOMAIN data THEN named
       ELSE IF Len(data.ip_range_v6) = 0
       THEN [named EXCEPT !.ip_range_v6 = NoRangeV6, !.server_ip_v6 = None]
       ELSE [named EXCEPT
                !.server_ip_v6 = IF @ = None
                                 THEN hosts_v6(ip_network_v6(data.ip_range_v6))[1]
                                 ELSE @,
                !.ip_range_v6 = data.ip_range_v6]

\* update_group: the payload's ip_range_v6 is answered with 400
RejectedRangeV6(w, g, data) ==
    /\ "ip_range_v6" \in DOMAIN data
    /\ Len(data.ip_range_v6) # 0
    /\ \/ InvalidRangeV6(data.ip_range_v6)
       \/ version(ip_network_v6(data.ip_range_v6)) # 6
       \/ /\ ip_network_v6(data.ip_range_v6) # w.groups[g].ip_range_v6
          /\ RangeInUseV6(w, data.ip_range_v6, DOMAIN w.groups \ {g})

\* PUT /api/groups/<group_id>
UpdateGroup(g, data, env) ==
    /\ IF g \notin DOMAIN groups
       THEN /\ NoEffect
            /\ last' = Resp("update_group", 404, g, 0, None, "none")
       ELSE IF RejectedRangeV6(World, g, data)
       THEN /\ NoEffect
            /\ last' = Resp("update_group", 400, g, 0, None, "none")
       ELSE LET w1 == [World EXCEPT !.groups[g] = ApplyGroupUpdate(@, data)]
                w2 == save_server_config(w1, g, env)
            IN /\ Commit(w2)
               /\ last' = Resp("update_group", StatusOf(w2, 200), g, g,
                               w1.groups[g].server_ip, "none")
    /\ UNCHANGED req

NewClientRow(id, g, name, assigned_ip) ==
    [group_id |-> g,
     name |-> name,
     private_key |-> GenKey("client-private", id),
     public_key |-> GenKey("client-public", id),
     assigned_ip |-> assigned_ip,
     assigned_ip_v6 |-> None,
     allowed_ips |-> DefaultAllowedIps,
     can_address_peers |-> TRUE,
     is_active |-> TRUE,
     last_handshake |-> None,
     total_received |-> 0,
     total_sent |-> 0]

\* create_client from db.session.add to the return: insert the row, write
\* the client file, save the server configuration
InsertClient(w, g, name, assigned_ip, env) ==
    LET id == MaxOf(DOMAIN w.clients) + 1
        assigned_ip_v6 == IF Len(w.groups[g].ip_range_v6) = 0 THEN None
                          ELSE get_next_available_ip_v6(w, g)
        w1 == [w EXCEPT !.clients =
                  Put(w.clients, id,
                      [NewClientRow(id, g, name, assigned_ip)
                          EXCEPT !.assigned_ip_v6 = assigned_ip_v6])]
    IN save_client_config(w1, id, env).w

\* POST /api/clients/group/<group_id>
CreateClient(g, name, env) ==
    /\ IF g \notin DOMAIN groups
       THEN /\ NoEffect
            /\ last' = Resp("create_client", 404, g, 0, None, "none")
       ELSE IF name = <<>>
       THEN /\ NoEffect
            /\ last' = Resp("create_client", 400, g, 0, None, "none")
       ELSE LET assigned_ip == get_next_available_ip(World, g)
            IN IF assigned_ip = None
               THEN /\ NoEffect
                    /\ last' = Resp("create_client", 400, g, 0, None, "none")
               ELSE LET w2 == save_server_config(
                                 InsertClient(World, g, name, assigned_ip, env), g, env)
                    IN /\ Commit(w2)
                       /\ last' = Resp("create_client", StatusOf(w2, 201), g,
                                       MaxOf(DOMAIN clients) + 1, assigned_ip, "none")
    /\ UNCHANGED req

\* the field assignments of update_client
ApplyClientUpdate(row, data) ==
    [row EXCEPT
        !.name = IF "name" \in DOMAIN data THEN data.name ELSE @,
        !.allowed_ips = IF "allowed_ips" \in DOMAIN data THEN data.allowed_ips ELSE @,
        !.can_address_peers =
            IF "can_address_peers" \in DOMAIN data THEN data.can_address_peers ELSE @,
        !.is_active = IF "is_active" \in DOMAIN data THEN data.is_active ELSE @]

\* update_client up to and including client.save_client_config()
StoreClientUpdate(w, c, data, env) ==
    save_client_config([w EXCEPT !.clients[c] = ApplyClientUpdate(@, data)], c, env).w

\* PUT /api/clients/<client_id>
UpdateClient(c, data, env) ==
    /\ IF c \notin DOMAIN clients
       THEN /\ NoEffect
            /\ last' = Resp("update_client", 404, 0, c, None, "none")
       ELSE LET w2 == save_server_config(StoreClientUpdate(World, c, data, env),
                                         clients[c].group_id, env)
            IN /\ Commit(w2)
               /\ last' = Resp("update_client", StatusOf(w2, 200), clients[c].group_id, c,
                               clients[c].assigned_ip, "none")
    /\ UNCHANGED req

\* delete_client up to the removal of the client's file
RemoveClient(w, c) ==
    [w EXCEPT !.clients = Drop(w.clients, {c}),
              !.fs = Drop(w.fs, {ClientFilePath(w, c)})]

\* DELETE /api/clients/<client_id>
DeleteClient(c, env) ==
    /\ IF c \notin DOMAIN clients
       THEN /\ NoEffect
            /\ last' = Resp("delete_client", 404, 0, c, None, "none")
       ELSE LET w2 == save_server_config(RemoveClient(World, c), clients[c].group_id, env)
            IN /\ Commit(w2)
               /\ last' = Resp("delete_client", StatusOf(w2, 200), clients[c].group_id, c,
                               clients[c].assigned_ip, "none")
    /\ UNCHANGED req

\* POST /api/groups/<group_id>/wireguard/toggle
ToggleWireguard(g, env) ==
    /\ IF g \notin DOMAIN groups
       THEN /\ NoEffect
            /\ last' = Resp("toggle", 404, g, 0, None, "none")
       ELSE IF groups[g].is_running = TRUE
       THEN LET r == stop_wireguard(World, g, env)
            IN /\ Commit(r.w)
               /\ last' = Resp("toggle", IF r.ret THEN 200 ELSE 500, g, 0, None,
                               IF r.ret THEN "stopped" ELSE "stop-failed")
       ELSE LET r == start_wireguard(World, g, env)
            IN /\ Commit(r.w)
               /\ last' = Resp("toggle", IF r.ret THEN 200 ELSE 500, g, 0, None,
                               IF r.ret THEN "started"
                               ELSE IF r.w.raised THEN "start-raised"
                               ELSE "start-failed")
    /\ UNCHANGED req

\* datetime.fromtimestamp(ts, tz=tz).replace(tzinfo=None): the wall-clock
\* seconds of the instant in the zone, a zone being its offset to UTC
fromtimestamp(ts, tz) == ts + tz

\* update_client_stats polling whatever is_running says
update_client_stats_unguarded(w, g, env, dump) ==
    LET stats == get_wireguard_stats(w, get_wireguard_interface_name(g), env, dump)
    IN [w |-> stats.w, ret |-> stats.ok /\ DOMAIN stats.peers # {}]

\* Group.update_client_stats
update_client_stats(w, g, env, dump) ==
    IF ~w.groups[g].is_running
    THEN [w |-> w, ret |-> FALSE]
    ELSE LET stats == get_wireguard_stats(w, get_wireguard_interface_name(g), env, dump)
             seen == {c \in ActiveClientsOf(w, g) :
                         w.clients[c].public_key \in DOMAIN stats.peers}
         IN IF ~stats.ok \/ DOMAIN stats.peers = {}
            THEN [w |-> stats.w, ret |-> FALSE]
            ELSE [w |-> [stats.w EXCEPT !.clients =
                          [c \in DOMAIN w.clients |->
                              IF c \notin seen THEN w.clients[c]
                              ELSE LET peer == stats.peers[w.clients[c].public_key]
                                   IN [w.clients[c] EXCEPT
                                         !.last_handshake =
                                             IF peer.latest_handshake > 0
                                             THEN fromtimestamp(peer.latest_handshake, utc)
                                             ELSE @,
                                         !.total_received = peer.received_bytes,
                                         !.total_sent = peer.sent_bytes]]],
                  ret |-> TRUE]

\* POST /api/groups/<group_id>/wireguard/stats
UpdateGroupStats(g, env, dump) ==
    /\ IF g \notin DOMAIN groups
       THEN /\ NoEffect
            /\ last' = Resp("stats", 404, g, 0, None, "none")
       ELSE LET r == update_client_stats(World, g, env, dump)
            IN /\ Commit(r.w)
               /\ last' = Resp("stats", StatusOf(r.w, IF r.ret THEN 200 ELSE 400),
                               g, 0, None, "none")
    /\ UNCHANGED req

\* Group.delete_server_config: stop, then shutil.rmtree(group_dir)
delete_server_config(w, g, env) ==
    LET group_dir == get_group_config_dir(w.groups[g])
        w1 == stop_wireguard(w, g, env).w
        inside == {p \in DOMAIN w1.fs : SubSeq(p, 1, 2) = group_dir}
    IN IF group_dir \notin w1.dirs
       THEN w1
       ELSE IF ~env.write_ok
       THEN Logged(w1, "rmtree-failed", group_dir)      \* except Exception
       ELSE [Logged(w1, "rmtree", group_dir)
                EXCEPT !.fs = Drop(w1.fs, inside), !.dirs = w1.dirs \ {group_dir}]

\* the loop of collect_traffic_stats over the groups stored as running:
\* try: group.update_client_stats() except Exception: log
RECURSIVE CollectEach(_, _, _, _)
CollectEach(w, gs, env, dumps) ==
    IF gs = <<>> THEN w
    ELSE LET r == update_client_stats(w, Head(gs), env, dumps[Head(gs)])
         IN CollectEach([r.w EXCEPT !.raised = FALSE], Tail(gs), env, dumps)

\* scheduler.collect_traffic_stats, up to the end of the polling loop
CollectTrafficStats(env, dumps) ==
    /\ Commit(CollectEach(World,
                          SortedSeq({g \in DOMAIN groups : groups[g].is_running}),
                          env, dumps))
    /\ last' = Resp("collect", 0, 0, 0, None, "none")
    /\ UNCHANGED req

\* DELETE /api/groups/<group_id>
DeleteGroup(g, env) ==
    /\ IF g \notin DOMAIN groups
       THEN /\ NoEffect
            /\ last' = Resp("delete_group", 404, g, 0, None, "none")
       ELSE LET w1 == delete_server_config(World, g, env)
                w2 == [w1 EXCEPT !.groups = Drop(w1.groups, {g}),
                                 !.clients = Drop(w1.clients, ClientsOf(w1, g))]
            IN /\ Commit(w2)
               /\ last' = Resp("delete_group", 200, g, 0, None, "none")
    /\ UNCHANGED req

\* the loop of _restart_wireguard_interfaces giving up at the first exception
RECURSIVE RestartEachUntilError(_, _, _)
RestartEachUntilError(w, gs, envs) ==
    IF gs = <<>> THEN w
    ELSE LET r == start_wireguard(w, Head(gs), envs[Head(gs)])
         IN IF r.w.raised
            THEN [Logged(r.w, "caught", get_wireguard_interface_name(Head(gs)))
                     EXCEPT !.raised = FALSE]
            ELSE RestartEachUntilError(r.w, Tail(gs), envs)

\* the loop of _restart_wireguard_interfaces: for group in running_groups,
\* try: group.start_wireguard() except Exception: log ("caught")
RECURSIVE RestartEach(_, _, _)
RestartEach(w, gs, envs) ==
    IF gs = <<>> THEN w
    ELSE LET r == start_wireguard(w, Head(gs), envs[Head(gs)])
             w1 == IF r.w.raised
                   THEN [Logged(r.w, "caught", get_wireguard_interface_name(Head(gs)))
                            EXCEPT !.raised = FALSE]
                   ELSE r.w
         IN RestartEach(w1, Tail(gs), envs)

RunningGroups(gs) == {g \in DOMAIN gs : gs[g].is_running}

\* create_app after a restart of the process: the database and the files
\* are as they were, the interfaces are as they were or gone (kept_up), and
\* _restart_wireguard_interfaces runs; envs gives the tools' outcomes per group
Restart(kept_up, envs) ==
    /\ Commit(RestartEach([World EXCEPT !.wg = IF kept_up THEN wg ELSE <<>>],
                          SortedSeq(RunningGroups(groups)), envs))
    /\ last' = Resp("startup", 0, 0, 0, None, "none")
    /\ req' = [t \in DOMAIN req |-> Idle]

(***************************************************************************)
(* Inputs                                                                  *)
(***************************************************************************)
Cidr(addr, prefix) == [addr |-> addr, prefix |-> prefix]

GroupNames == {<<"A">>, <<"b">>}
PortInputs == {None, 51821}
Net30 == Cidr(Ip(10, 0, 0, 0), 30)
Net30Host == Cidr(Ip(10, 0, 0, 1), 30)
Net29 == Cidr(Ip(10, 0, 0, 8), 29)
Net28 == Cidr(Ip(10, 15, 0, 0), 28)
BadRange == Cidr(Ip(10, 0, 0, 0), 33)
InjectedName == <<"x", "\n", "[", "P", "e", "e", "r", "]">>
ClientNames == {<<"a">>, InjectedName}
ActiveInputs == {[is_active |-> b] : b \in BOOLEAN}
UpdateInputs == {[name |-> n] : n \in ClientNames} \cup ActiveInputs
GroupIds == 1..(MaxRangeGroups + 1)

Init ==
    /\ groups = <<>>
    /\ clients = <<>>
    /\ dirs = {}
    /\ fs = <<>>
    /\ wg = <<>>
    /\ last = Resp("none", 0, 0, 0, None, "none")
    /\ req = [t \in 1..NumThreads |-> Idle]
    /\ calls = <<>>
    /\ raised = FALSE
    /\ wg_warning_shown = FALSE

(***************************************************************************)
(* Spec: one group's interface lifecycle with its clients, requests        *)
(* served one at a time, every outcome of the tools and of the writes      *)
(***************************************************************************)
DoCreateGroup ==
    \E env \in WriteEnvs : CreateGroup(<<"A">>, Net29, None, env)

DoCreateClient ==
    \E g \in GroupIds, name \in ClientNames :
        \E env \in ToolEnvsFor(groups, g) :
            /\ MaxOf(DOMAIN clients) < MaxClientId
            /\ CreateClient(g, name, env)

DoUpdateClient ==
    \E c \in DOMAIN clients, data \in UpdateInputs :
        \E env \in ToolEnvsFor(groups, clients[c].group_id) :
            UpdateClient(c, data, env)

DoDeleteClient ==
    \E c \in 1..(MaxClientId + 1) :
        \E env \in ToolEnvsFor(groups, IF c \in DOMAIN clients THEN clients[c].group_id ELSE 0) :
            DeleteClient(c, env)

DoToggleWireguard ==
    \E g \in GroupIds, env \in ToolEnvs : ToggleWireguard(g, env)

Next ==
    \/ DoCreateGroup
    \/ DoCreateClient
    \/ DoUpdateClient
    \/ DoDeleteClient
    \/ DoToggleWireguard

Spec == Init /\ [][Next]_vars

(***************************************************************************)
(* Properties of the interface lifecycle (Spec)                            *)
(***************************************************************************)
RenderedPeers(g) == CountLines(generate_server_config(World, g), PeerHeader)
RenderedInterfaces(g) == CountLines(generate_server_config(World, g), InterfaceHeader)

\* C8: in every reachable state the rendered server config of a group has
\* exactly one [Interface] stanza and exactly as many [Peer] stanzas as the
\* group has active clients (so none for an inactive client)
C8_OnePeerPerActiveClient ==
    \A g \in DOMAIN groups :
        /\ RenderedInterfaces(g) = 1
        /\ RenderedPeers(g) = Cardinality(ActiveClientsOf(World, g))

\* the same count over the groups whose client names hold no line break
PlainNamesOnePeerPerActiveClient ==
    \A g \in DOMAIN groups :
        (\A c \in ClientsOf(World, g) : clients[c].name # InjectedName)
            => /\ RenderedInterfaces(g) = 1
               /\ RenderedPeers(g) = Cardinality(ActiveClientsOf(World, g))

\* C9: a step sets is_running from false to true only if the interface is up
\* afterwards, a start reported as successful leaves the interface up and the
\* flag set, and a failed start leaves is_running as it was
C9_RunningOnlyAfterSuccessfulStart ==
    [][/\ \A g \in DOMAIN groups \cap DOMAIN groups' :
            (groups'[g].is_running /\ ~groups[g].is_running)
                => get_wireguard_interface_name(g) \in DOMAIN wg'
       /\ (last'.op = "toggle" /\ last'.toggled = "started")
            => /\ groups'[last'.group].is_running
               /\ get_wireguard_interface_name(last'.group) \in DOMAIN wg'
       /\ (last'.op = "toggle" /\ last'.toggled = "start-failed")
            => /\ last'.status = 500
               /\ groups'[last'.group].is_running = groups[last'.group].is_running
      ]_vars

\* a start succeeded: the flag is set and the interface is up
C9_Witness ==
    /\ last.op = "toggle"
    /\ last.toggled = "started"
    /\ groups[last.group].is_running
    /\ get_wireguard_interface_name(last.group) \in DOMAIN wg

\* a start failed because the saved config file is missing
C9_WitnessMissingConfig ==
    /\ last.op = "toggle"
    /\ last.toggled = "start-failed"
    /\ ServerFilePath(groups[last.group]) \notin DOMAIN fs

\* C10: an interface that is up for a group was brought up from the file
\* save_server_config wrote for that group
C10_StartedFromSavedFile ==
    \A g \in DOMAIN groups :
        get_wireguard_interface_name(g) \in DOMAIN wg
            => /\ wg[get_wireguard_interface_name(g)] = ServerFilePath(groups[g])
               /\ wg[get_wireguard_interface_name(g)] \in DOMAIN fs

\* the tool invocations among the calls of a step
ToolCalls(cs, kinds) == {i \in 1..Len(cs) : cs[i].kind \in kinds}

\* the request of the step was a toggle that called stop_wireguard
StopRequested == last'.op = "toggle" /\ last'.toggled \in {"stopped", "stop-failed"}

\* the interface of the group was down when the step began
WasDown(g) == get_wireguard_interface_name(g) \notin DOMAIN wg

\* a second stop_wireguard right after a first, in the same environment,
\* returns what the first returned and leaves the state the first left
StopTwiceAsOnce(g, env) ==
    LET r1 == stop_wireguard(World, g, env)
        r2 == stop_wireguard([r1.w EXCEPT !.calls = <<>>], g, env)
    IN /\ r2.ret = r1.ret
       /\ r2.w.groups = r1.w.groups
       /\ r2.w.wg = r1.w.wg
       /\ r2.w.fs = r1.w.fs

\* C11 as stated: a stop on a group whose interface is already down reports
\* success and leaves is_running false, whatever the tool does
C11_StopOfDownInterfaceSucceeds ==
    [][(StopRequested /\ WasDown(last'.group))
          => /\ last'.toggled = "stopped"
             /\ last'.status = 200
             /\ ~groups'[last'.group].is_running
      ]_vars

\* wg-quick down could not be run in the step (binary missing, spawn error)
ToolUnavailable == \E i \in ToolCalls(calls', {"down"}) : ~calls'[i].ran

\* C11 amended: when wg-quick can be run, a stop on a group whose interface
\* is already down reports success, leaves is_running false and the interface
\* down; when wg-quick cannot be run the stop reports failure and changes
\* neither is_running nor the interface; in every state a second stop in a
\* row gives the result and the state of the first
C11_StopIdempotent ==
    [][/\ (StopRequested /\ WasDown(last'.group))
            => /\ ToolCalls(calls', {"down"}) # {}
               /\ wg' = wg
               /\ IF ToolUnavailable
                  THEN /\ last'.status = 500
                       /\ last'.toggled = "stop-failed"
                       /\ groups' = groups
                  ELSE /\ last'.status = 200
                       /\ ~groups'[last'.group].is_running
       /\ StopRequested => \A env \in ToolEnvs : StopTwiceAsOnce(last'.group, env)
      ]_vars

\* a stop succeeded on a group marked running whose interface was down
C11_Witness ==
    /\ last.op = "toggle"
    /\ last.toggled = "stopped"
    /\ calls # <<>>
    /\ calls[1].kind = "down"
    /\ ~calls[1].live
    /\ ~groups[last.group].is_running

\* C12: is_running goes from true to false only in a step after which the
\* interface is down, and a stop that leaves the interface up reports
\* failure and leaves is_running true
C12_FailedTeardownReported ==
    [][/\ \A g \in DOMAIN groups \cap DOMAIN groups' :
            (groups[g].is_running /\ ~groups'[g].is_running)
                => get_wireguard_interface_name(g) \notin DOMAIN wg'
       /\ (StopRequested /\ get_wireguard_interface_name(last'.group) \in DOMAIN wg')
            => /\ last'.toggled = "stop-failed"
               /\ groups'[last'.group].is_running
      ]_vars

FileKinds == {"write", "write-failed", "remove", "remove-failed", "mkdir-failed"}
ToolKinds == {"down", "show", "up"}

\* the step ran save_server_config for the group of the request
SaveRan ==
    /\ last'.op \in {"create_group", "create_client", "update_client", "delete_client"}
    /\ last'.status \in {200, 201, 500}

WasRunning(g) == g \in DOMAIN groups /\ groups[g].is_running

\* the step wrote the server config of group g
ServerConfigWritten(g) ==
    \E i \in ToolCalls(calls', {"write"}) : calls'[i].target = ServerFilePath(groups'[g])

\* C14: a save_server_config on a group whose is_running is false calls no
\* tool and changes neither the interfaces nor is_running; on a group whose
\* is_running is true it reloads once the server config is written
C14_ReloadOnlyWhenRunning ==
    [][SaveRan =>
          /\ ~WasRunning(last'.group)
                => /\ ToolCalls(calls', ToolKinds) = {}
                   /\ wg' = wg
                   /\ ~groups'[last'.group].is_running
          /\ (WasRunning(last'.group) /\ ServerConfigWritten(last'.group))
                => ToolCalls(calls', {"down"}) # {}
      ]_vars

\* a save on a stopped group whose interface is still up left it alone
C14_Witness ==
    /\ last.op = "create_client"
    /\ last.status = 201
    /\ ~groups[last.group].is_running
    /\ get_wireguard_interface_name(last.group) \in DOMAIN wg
    /\ ToolCalls(calls, {"write"}) # {}
    /\ ToolCalls(calls, ToolKinds) = {}

\* C16: every wg-quick up of a step comes after a wg-quick down of the same
\* interface in that step; after a down that exited with 0 the interface is
\* down when up is invoked; and a start reports success exactly when its
\* last call, the wg-quick up, exited with 0
C16_ReloadStopsThenStarts ==
    [][/\ \A j \in ToolCalls(calls', {"up"}) :
            /\ \E i \in ToolCalls(calls', {"down"}) :
                  i < j /\ calls'[i].target = calls'[j].target
            /\ \A i \in ToolCalls(calls', {"down"}) :
                  (i < j /\ calls'[i].target = calls'[j].target /\ calls'[i].ok)
                      => ~calls'[j].live
       /\ (last'.op = "toggle" /\ last'.toggled \in {"started", "start-failed"})
            => (last'.toggled = "started"
                   <=> /\ calls' # <<>>
                       /\ calls'[Len(calls')].kind = "up"
                       /\ calls'[Len(calls')].ok)
      ]_vars

\* C16 as stated: every wg-quick up of a step comes after a wg-quick down of
\* the same interface in that step, and the interface is down when up is invoked
C16_InterfaceDownBeforeBringUp ==
    [][\A j \in ToolCalls(calls', {"up"}) :
            /\ \E i \in ToolCalls(calls', {"down"}) :
                  i < j /\ calls'[i].target = calls'[j].target
            /\ ~calls'[j].live
      ]_vars

\* a start on an interface that was up: torn down, then brought up
C16_Witness ==
    /\ last.op = "toggle"
    /\ last.toggled = "started"
    /\ Len(calls) >= 2
    /\ calls[1].kind = "down"
    /\ calls[1].live
    /\ calls[1].ok
    /\ calls[Len(calls)].kind = "up"
    /\ ~calls[Len(calls)].live

(***************************************************************************)
(* SpecSave: the clients of one group created, renamed, deactivated and    *)
(* deleted while the group is started and stopped, with writes that fail   *)
(* and reloads that fail                                                   *)
(***************************************************************************)
\* on a stopped group a save succeeds, or the directory cannot be created,
\* or every write fails, or the write of a client file fails, or os.remove
\* fails; on a running group the reload can fail as well
SaveEnvsFor(gs, g) ==
    {EnvOk, EnvMkdirFails, EnvWriteFails, [EnvOk EXCEPT !.client_write_ok = FALSE],
     [EnvOk EXCEPT !.remove_ok = FALSE]}
        \cup (IF g \in DOMAIN gs /\ gs[g].is_running = TRUE
              THEN {[EnvOk EXCEPT !.up_ok = FALSE]}
              ELSE {})

SaveCreateGroup ==
    \E env \in {EnvOk, EnvMkdirFails} : CreateGroup(<<"A">>, Net29, None, env)

SaveToggleWireguard == \E g \in DOMAIN groups : ToggleWireguard(g, EnvOk)

SaveCreateClient ==
    \E g \in DOMAIN groups :
        \E env \in SaveEnvsFor(groups, g) :
            /\ MaxOf(DOMAIN clients) < MaxSaveClientId
            /\ CreateClient(g, <<"a">>, env)

SaveUpdateClient ==
    \E c \in DOMAIN clients, data \in {[name |-> <<"b">>]} \cup ActiveInputs :
        \E env \in SaveEnvsFor(groups, clients[c].group_id) :
            UpdateClient(c, data, env)

SaveDeleteClient ==
    \E c \in DOMAIN clients :
        \E env \in SaveEnvsFor(groups, clients[c].group_id) : DeleteClient(c, env)

NextSave ==
    \/ SaveCreateGroup
    \/ SaveToggleWireguard
    \/ SaveCreateClient
    \/ SaveUpdateClient
    \/ SaveDeleteClient

SpecSave == Init /\ [][NextSave]_vars

\* the step wrote, or tried to write, the config file of every active client
\* of group g
ClientFilesAttempted(g) ==
    \A c \in DOMAIN clients' :
        (clients'[c].group_id = g /\ clients'[c].is_active)
            => \E i \in ToolCalls(calls', {"write", "write-failed"}) :
                  calls'[i].target
                      = get_group_config_dir(groups'[g]) \o <<PathName(clients'[c].name)>>

\* C15: in a save_server_config every file operation comes before every
\* tool invocation; when the write of the server config fails no tool is
\* invoked; and when a tool is invoked the server config on disk is the
\* complete rendering of the committed state and the config file of every
\* active client has been written or its write has failed
C15_SaveCompletesBeforeReload ==
    [][SaveRan =>
          /\ \A i \in ToolCalls(calls', FileKinds), j \in ToolCalls(calls', ToolKinds) : i < j
          /\ (\E i \in ToolCalls(calls', {"write-failed"}) :
                    calls'[i].target = ServerFilePath(groups'[last'.group]))
                => ToolCalls(calls', ToolKinds) = {}
          /\ ToolCalls(calls', ToolKinds) # {}
                => /\ ServerConfigWritten(last'.group)
                   /\ fs'[ServerFilePath(groups'[last'.group])]
                         = generate_server_config(World', last'.group)
                   /\ ClientFilesAttempted(last'.group)
      ]_vars

\* a rename on a running group: the old file was removed before the reload,
\* and the reload failed
C15_Witness ==
    /\ last.op = "update_client"
    /\ groups[last.group].is_running
    /\ get_wireguard_interface_name(last.group) \notin DOMAIN wg
    /\ \E i \in ToolCalls(calls, {"remove"}), j \in ToolCalls(calls, {"down"}) : i < j

\* the names of the client config files in the directory of group g
ClientFilesOf(files, group) ==
    {p[3] : p \in {q \in DOMAIN files :
                      /\ Len(q) = 3
                      /\ SubSeq(q, 1, 2) = get_group_config_dir(group)
                      /\ q[3] # ServerConfName}}

\* C17: after a save_server_config that wrote the server config, the client
\* config files in the group's directory are exactly the files named after
\* the group's active clients
C17_ClientFilesMatchActiveClients ==
    [][(SaveRan /\ ServerConfigWritten(last'.group))
          => ClientFilesOf(fs', groups'[last'.group])
                = {PathName(clients'[c].name) :
                      c \in {x \in DOMAIN clients' :
                                /\ clients'[x].group_id = last'.group
                                /\ clients'[x].is_active}}
      ]_vars

\* the step committed a create, update or delete of a client or group
Committed ==
    /\ last'.op \in {"create_group", "create_client", "update_client", "delete_client"}
    /\ last'.status \notin {400, 404}

\* a file operation or a tool call of the step failed
SyncFailed ==
    \/ ToolCalls(calls', {"mkdir-failed", "write-failed", "remove-failed"}) # {}
    \/ \E i \in ToolCalls(calls', ToolKinds) : ~calls'[i].ok

\* C23: a request that committed its change answers 200 or 201 and leaves
\* the change in the store whatever happened to the files and the reload;
\* and a save in which nothing failed leaves the server config equal to the
\* rendering of the store and one client file per active client
C23_CommittedChangeReportsSuccess ==
    [][Committed =>
          /\ last'.status \in {200, 201}
          /\ last'.op = "create_group" => last'.id \in DOMAIN groups'
          /\ last'.op = "create_client" => last'.id \in DOMAIN clients'
          /\ last'.op = "delete_client" => last'.id \notin DOMAIN clients'
          /\ ~SyncFailed
                => /\ fs'[ServerFilePath(groups'[last'.group])]
                         = generate_server_config(World', last'.group)
                   /\ ClientFilesOf(fs', groups'[last'.group])
                         = {PathName(clients'[c].name) :
                               c \in ActiveClientsOf(World', last'.group)}
      ]_vars

(***************************************************************************)
(* SpecGroups: group creation with every form of range and port            *)
(***************************************************************************)
RangeInputs == {Net30, Net30Host, Net29, BadRange}

GroupsCreateGroup ==
    \E name \in GroupNames, range \in RangeInputs, port \in PortInputs, env \in WriteEnvs :
        /\ Cardinality(DOMAIN groups) < MaxRangeGroups
        /\ CreateGroup(name, range, port, env)

NextGroups == GroupsCreateGroup

SpecGroups == Init /\ [][NextGroups]_vars

\* C6: no two existing groups own the same IPv4 network
C6_NetworksDistinct ==
    \A g1 \in DOMAIN groups, g2 \in DOMAIN groups :
        g1 # g2 => ip_network(groups[g1].ip_range) # ip_network(groups[g2].ip_range)

\* the ports a request can name; a group created without one has none of them
ExplicitPorts == PortInputs \ {None}
AutoPort(g) == groups[g].listen_port \notin ExplicitPorts

\* C7: two groups created without an explicit listen_port have different
\* listen_port values
C7_AutoPortsDistinct ==
    \A g1 \in DOMAIN groups, g2 \in DOMAIN groups :
        (g1 # g2 /\ AutoPort(g1) /\ AutoPort(g2))
            => groups[g1].listen_port # groups[g2].listen_port

(***************************************************************************)
(* SpecAlloc: clients of a group created, deactivated, reactivated and     *)
(* deleted one request at a time                                           *)
(***************************************************************************)
AllocRanges == {Net30, Net30Host, Net29}

AllocCreateGroup ==
    \E range \in AllocRanges :
        /\ Cardinality(DOMAIN groups) < MaxAllocGroups
        /\ CreateGroup(<<"A">>, range, None, EnvOk)

AllocCreateClient ==
    \E g \in DOMAIN groups :
        /\ MaxOf(DOMAIN clients) < MaxAllocClientId
        /\ CreateClient(g, <<"a">>, EnvOk)

AllocUpdateClient ==
    \E c \in DOMAIN clients, data \in ActiveInputs : UpdateClient(c, data, EnvOk)

AllocDeleteClient ==
    \E c \in DOMAIN clients : DeleteClient(c, EnvOk)

NextAlloc ==
    \/ AllocCreateGroup
    \/ AllocCreateClient
    \/ AllocUpdateClient
    \/ AllocDeleteClient

SpecAlloc == Init /\ [][NextAlloc]_vars

\* the host addresses of a range with a prefix of at most 30: every address
\* strictly between the network address and the broadcast address
HostSet(range) ==
    LET size == Pow2(32 - range.prefix)
        base == (range.addr \div size) * size
    IN (base + 1)..(base + size - 2)

AssignedIn(cs, g) == {cs[c].assigned_ip : c \in {x \in DOMAIN cs : cs[x].group_id = g}}

\* C1: the addresses of a group's clients, active or not, are pairwise
\* distinct, differ from the server address and are hosts of the range
C1_AddressesUnique ==
    \A g \in DOMAIN groups :
        /\ \A c1 \in ClientsOf(World, g), c2 \in ClientsOf(World, g) :
              c1 # c2 => clients[c1].assigned_ip # clients[c2].assigned_ip
        /\ groups[g].server_ip \notin AssignedIn(clients, g)
        /\ AssignedIn(clients, g) \subseteq HostSet(groups[g].ip_range)

\* two clients of one group, one of them deactivated, after a deletion
C1_Witness ==
    /\ last.op = "create_client"
    /\ last.status = 201
    /\ \E c1 \in DOMAIN clients, c2 \in DOMAIN clients :
          /\ c1 # c2
          /\ clients[c1].group_id = clients[c2].group_id
          /\ ~clients[c1].is_active
          /\ clients[c2].is_active
          /\ c2 > Cardinality(DOMAIN clients)

FreeHosts(gs, cs, g) == HostSet(gs[g].ip_range) \ ({gs[g].server_ip} \cup AssignedIn(cs, g))

\* C5: the server address is the lowest host of the range, and a step that
\* adds a client gives it the lowest host that was free before the step
C5_LowestFreeAddress ==
    [][/\ \A g \in DOMAIN groups' :
            /\ groups'[g].server_ip \in HostSet(groups'[g].ip_range)
            /\ \A h \in HostSet(groups'[g].ip_range) : groups'[g].server_ip <= h
       /\ \A c \in DOMAIN clients' \ DOMAIN clients :
            LET free == FreeHosts(groups, clients, clients'[c].group_id)
            IN /\ clients'[c].assigned_ip \in free
               /\ \A h \in free : clients'[c].assigned_ip <= h
      ]_vars

\* a new client took over the address of a deleted one, below the address of
\* an older client, while a deactivated client kept its own
C5_Witness ==
    /\ last.op = "create_client"
    /\ last.status = 201
    /\ \E old \in DOMAIN clients :
          /\ old < last.id
          /\ clients[old].group_id = last.group
          /\ clients[old].assigned_ip > last.ip
          /\ ~clients[old].is_active

(***************************************************************************)
(* SpecFill: a range filled up with clients                                *)
(***************************************************************************)
FillCreateGroup ==
    \E name \in GroupNames : CreateGroup(name, Net28, None, EnvOk)

FillCreateClient ==
    \E g \in DOMAIN groups : CreateClient(g, <<"a">>, EnvOk)

FillUpdateClient ==
    \E c \in DOMAIN clients, data \in ActiveInputs :
        /\ data.is_active = FALSE
              => Cardinality({x \in DOMAIN clients : ~clients[x].is_active}) < MaxInactive
        /\ UpdateClient(c, data, EnvOk)

NextFill ==
    \/ FillCreateGroup
    \/ FillCreateClient
    \/ FillUpdateClient

SpecFill == Init /\ [][NextFill]_vars

\* C3: a create_client on a group without a free host answers 400 and adds no
\* row; after any create_client the group's addresses are distinct hosts of
\* the range; on a /28 range a creation succeeds exactly while the group has
\* fewer than 13 clients
C3_ExhaustionRejected ==
    [][(last'.op = "create_client" /\ last'.group \in DOMAIN groups)
        => LET g == last'.group
           IN /\ FreeHosts(groups, clients, g) = {}
                    => (last'.status = 400 /\ clients' = clients)
              /\ AssignedIn(clients', g) \subseteq HostSet(groups[g].ip_range) \ {groups[g].server_ip}
              /\ Cardinality(AssignedIn(clients', g))
                    = Cardinality({c \in DOMAIN clients' : clients'[c].group_id = g})
              /\ groups[g].ip_range.prefix = 28
                    => (last'.status = 201 <=> Cardinality(ClientsOf(World, g)) < 13)
      ]_vars

\* the 14th creation on the /28 range was rejected
C3_Witness ==
    /\ last.op = "create_client"
    /\ last.status = 400
    /\ last.group \in DOMAIN groups
    /\ groups[last.group].ip_range = Net28
    /\ Cardinality(ClientsOf(World, last.group)) = 13

(***************************************************************************)
(* SpecOps: two groups and their interfaces operated through the tools:    *)
(* toggles, statistics collection and group deletion, with every outcome   *)
(* of the tools                                                            *)
(***************************************************************************)
OpsRanges == {Net29, Net30}

\* what "wg show <name> dump" can print about a peer after its public key:
\* preshared key, endpoint, allowed ips, latest handshake, received, sent
PeerSamples ==
    {<<"(none)", "(none)", "(none)", <<0>>, <<0>>, <<0>>>>,
     <<"(none)", "endpoint", "allowed", <<1>>, <<2>>, <<1>>>>}

\* the interface line of a dump: private key, public key, port, fwmark
DumpHeader == <<"private", "public", "port", "off">>

\* the output of the tool for an interface whose peers are the clients cs
DumpOf(cs, sample) ==
    <<DumpHeader>> \o [i \in 1..Len(cs) |-> <<clients[cs[i]].public_key>> \o sample]

\* the dumps of a group's interface: the interface line and one line per
\* active client, or only the interface line
Dumps(g) ==
    {<<DumpHeader>>}
        \cup {DumpOf(SortedSeq(ActiveClientsOf(World, g)), p) : p \in PeerSamples}

OpsCreateGroup ==
    \E range \in OpsRanges :
        CreateGroup(IF range = Net29 THEN <<"A">> ELSE <<"b">>, range, None, EnvOk)

OpsCreateClient ==
    \E g \in DOMAIN groups :
        /\ MaxOf(DOMAIN clients) < MaxOpsClientId
        /\ CreateClient(g, <<"a">>, EnvOk)

OpsToggleWireguard ==
    \E g \in DOMAIN groups, env \in ToolEnvs : ToggleWireguard(g, env)

\* the outcomes of running one tool once: for a call chain with a single
\* tool invocation the exit codes of the other tool make no difference
OneToolEnvs ==
    {e \in Envs : /\ e.up_ok = e.down_ok /\ e.mkdir_ok /\ e.remove_ok
                  /\ e.write_ok = e.client_write_ok}

OpsUpdateGroupStats ==
    \E g \in GroupIds, env \in OneToolEnvs \cap ToolEnvs :
        \E dump \in IF g \in DOMAIN groups THEN Dumps(g) ELSE {<<>>} :
            UpdateGroupStats(g, env, dump)

OpsDeleteGroup ==
    \E g \in GroupIds, env \in OneToolEnvs : DeleteGroup(g, env)

NextOps ==
    \/ OpsCreateGroup
    \/ OpsCreateClient
    \/ OpsToggleWireguard
    \/ OpsUpdateGroupStats
    \/ OpsDeleteGroup

SpecOps == Init /\ [][NextOps]_vars

\* a tool could not be run in the step: binary missing or another OS error
SpawnFailed == \E i \in ToolCalls(calls', {"down", "show", "up", "dump"}) : ~calls'[i].ran

\* C13: no exception escapes a start, stop, reload or statistics collection,
\* and when a tool cannot be run (binary missing, other OS error at spawn) or
\* wg-quick up exits non-zero, the operation reports failure to its caller
C13_ToolFailuresReturned ==
    [][/\ ~raised'
       /\ (last'.op \in {"toggle", "stats"} /\ SpawnFailed)
            => /\ last'.status \in {400, 500}
               /\ last'.toggled \in {"none", "start-failed", "stop-failed"}
       /\ (last'.op = "toggle" /\ last'.toggled = "started")
            => get_wireguard_interface_name(last'.group) \in DOMAIN wg'
      ]_vars

\* C18: a delete_group that answered 200 issued wg-quick down before it
\* removed the directory, and after it the interface of the group is down,
\* the config directory and every file in it are gone, and the group and its
\* clients are no longer stored
C18_DeleteStopsThenRemoves ==
    [][(last'.op = "delete_group" /\ last'.status = 200)
          => LET g == last'.group
                 group_dir == get_group_config_dir(groups[g])
             IN /\ ToolCalls(calls', {"down"}) # {}
                /\ \A i \in ToolCalls(calls', {"down"}),
                      j \in ToolCalls(calls', {"rmtree", "rmtree-failed"}) : i < j
                /\ get_wireguard_interface_name(g) \notin DOMAIN wg'
                /\ group_dir \notin dirs'
                /\ \A p \in DOMAIN fs' : SubSeq(p, 1, 2) # group_dir
                /\ g \notin DOMAIN groups'
                /\ \A c \in DOMAIN clients' : clients'[c].group_id # g
      ]_vars

(***************************************************************************)
(* SpecStats: statistics polled on request and by the collector, for       *)
(* groups that are started and stopped and clients that are deactivated    *)
(***************************************************************************)
\* a dump line with six parts only and an empty handshake field
ShortSample == <<"(none)", "endpoint", "allowed", <<>>, <<2>>>>

\* the dumps of the interface of group g: the interface reads a file the
\* controller does not write, so its peers are any of the group's clients
StatsDumps(g) ==
    {<<DumpHeader>>}
        \cup {DumpOf(SortedSeq(cs), p) :
                 cs \in SUBSET ClientsOf(World, g) \ {{}},
                 p \in PeerSamples \cup {ShortSample}}

StatsCreateGroup ==
    \E range \in OpsRanges :
        CreateGroup(IF range = Net29 THEN <<"A">> ELSE <<"b">>, range, None, EnvOk)

\* the clients are those of the group created first
StatsCreateClient ==
    /\ 1 \in DOMAIN groups
    /\ MaxOf(DOMAIN clients) < MaxStatsClientId
    /\ CreateClient(1, <<"a">>, EnvOk)

StatsUpdateClient ==
    \E c \in DOMAIN clients, data \in ActiveInputs : UpdateClient(c, data, EnvOk)

StatsToggleWireguard ==
    \E g \in DOMAIN groups, env \in {EnvOk, [EnvOk EXCEPT !.down_ok = FALSE]} :
        ToggleWireguard(g, env)

StatsUpdateGroupStats ==
    \E g \in DOMAIN groups, env \in {EnvOk, [EnvOk EXCEPT !.installed = FALSE,
                                                   !.up_ok = FALSE, !.down_ok = FALSE]} :
        \E dump \in StatsDumps(g) : UpdateGroupStats(g, env, dump)

StatsCollect ==
    \E dumps \in [DOMAIN groups -> UNION {StatsDumps(g) : g \in DOMAIN groups}] :
        /\ \A g \in DOMAIN groups : dumps[g] \in StatsDumps(g)
        /\ CollectTrafficStats(EnvOk, dumps)

NextStats ==
    \/ StatsCreateGroup
    \/ StatsCreateClient
    \/ StatsUpdateClient
    \/ StatsToggleWireguard
    \/ StatsUpdateGroupStats
    \/ StatsCollect

SpecStats == Init /\ [][NextStats]_vars

\* the calls of the step made for the interface of group g
CallsFor(cs, g) == {i \in 1..Len(cs) : cs[i].target = get_wireguard_interface_name(g)}

\* C21: a stats request on a group whose is_running is false answers 400,
\* calls no tool and changes no client; the collector calls the tool for no
\* group whose is_running is false and changes no client of such a group
C21_StoppedGroupNotPolled ==
    [][/\ (last'.op = "stats" /\ last'.status # 404 /\ ~groups[last'.group].is_running)
            => /\ last'.status = 400
               /\ calls' = <<>>
               /\ clients' = clients
               /\ groups' = groups
       /\ last'.op = "collect"
            => \A g \in DOMAIN groups :
                  ~groups[g].is_running
                      => /\ CallsFor(calls', g) = {}
                         /\ \A c \in ClientsOf(World, g) : clients'[c] = clients[c]
      ]_vars

\* a collector run with one group running and one stopped whose interface
\* is up: the running one was polled and the stopped one was not
C21_Witness ==
    /\ last.op = "collect"
    /\ ToolCalls(calls, {"dump"}) # {}
    /\ \E g \in DOMAIN groups :
          /\ ~groups[g].is_running
          /\ get_wireguard_interface_name(g) \in DOMAIN wg
          /\ ClientsOf(World, g) # {}
          /\ CallsFor(calls, g) = {}

\* the peer lines of the dump the step read that start with the public key
PeerLinesOf(cs, key) ==
    UNION {{cs[i].stdout[k] : k \in {n \in 2..Len(cs[i].stdout) : cs[i].stdout[n][1] = key}} :
              i \in ToolCalls(cs, {"dump"})}

\* C22: after a stats request that answered 200, every client of the group
\* whose public key is in the dump has the dump's counters in place of its
\* own and the dump's handshake time in UTC (none for the epoch 0), and
\* every other client is unchanged; no group is changed
C22_StatsMerged ==
    [][(last'.op = "stats" /\ last'.status = 200)
          => /\ groups' = groups
             /\ DOMAIN clients' = DOMAIN clients
             /\ \A c \in DOMAIN clients :
                   LET lines == IF clients[c].group_id = last'.group
                                THEN PeerLinesOf(calls', clients[c].public_key)
                                ELSE {}
                   IN IF lines = {}
                      THEN clients'[c] = clients[c]
                      ELSE \E parts \in lines :
                              clients'[c] =
                                 [clients[c] EXCEPT
                                    !.last_handshake =
                                        IF IntField(parts[5]) > 0
                                        THEN fromtimestamp(IntField(parts[5]), utc)
                                        ELSE None,
                                    !.total_received = IntField(parts[6]),
                                    !.total_sent =
                                        IF Len(parts) > 6 THEN IntField(parts[7]) ELSE 0]
      ]_vars

(***************************************************************************)
(* SpecBoot: groups started and stopped, and the process restarted         *)
(***************************************************************************)
BootCreateGroup ==
    \E range \in OpsRanges :
        CreateGroup(IF range = Net29 THEN <<"A">> ELSE <<"b">>, range, None, EnvOk)

BootToggleWireguard ==
    \E g \in DOMAIN groups, env \in ToolEnvs : ToggleWireguard(g, env)

BootRestart ==
    \E kept_up \in BOOLEAN, envs \in [RunningGroups(groups) -> ToolEnvs] :
        Restart(kept_up, envs)

NextBoot ==
    \/ BootCreateGroup
    \/ BootToggleWireguard
    \/ BootRestart

SpecBoot == Init /\ [][NextBoot]_vars

\* C19: the startup recovery attempts a start (whose first call is the
\* wg-quick down of the reload) for every group stored with is_running true,
\* calls nothing for a group stored with is_running false, and lets no
\* exception escape, whatever the outcome of the start of any group
C19_StartupStartsEveryRunningGroup ==
    [][last'.op = "startup"
          => /\ ~raised'
             /\ \A g \in DOMAIN groups :
                   IF groups[g].is_running
                   THEN \E i \in CallsFor(calls', g) : calls'[i].kind = "down"
                   ELSE CallsFor(calls', g) = {}
      ]_vars

\* a startup with two groups to recover: the start of the first raised an
\* exception and the start of the second was made after it and succeeded
C19_Witness ==
    /\ last.op = "startup"
    /\ ~raised
    /\ \E i \in ToolCalls(calls, {"caught"}), j \in ToolCalls(calls, {"up"}) :
          /\ i < j
          /\ calls[i].target # calls[j].target
          /\ calls[j].ok
    /\ \E g \in DOMAIN groups :
          groups[g].is_running /\ get_wireguard_interface_name(g) \notin DOMAIN wg

(***************************************************************************)
(* SpecConc: client requests of one group served by concurrent workers.    *)
(* A worker's request is a sequence of steps; between two steps the other  *)
(* workers may run: the allocation, the commit with the client file, the   *)
(* rendering of the server configuration, and its write with the client    *)
(* files, the pruning and the reload.                                      *)
(***************************************************************************)
Workers == 1..NumThreads

Pending == {t \in Workers : req[t].pc = "commit"}

ConcCreateGroup ==
    CreateGroup(<<"A">>, Net29, None, EnvOk)

\* create_client up to group.get_next_available_ip()
BeginCreateClient(t, g, name) ==
    /\ req[t].pc = "idle"
    /\ g \in DOMAIN groups
    /\ MaxOf(DOMAIN clients) + Cardinality(Pending) < MaxConcClientId
    /\ LET assigned_ip == get_next_available_ip(World, g)
       IN IF assigned_ip = None
          THEN /\ last' = Resp("create_client", 400, g, 0, None, "none")
               /\ UNCHANGED req
          ELSE /\ req' = [req EXCEPT ![t] = [Idle EXCEPT !.pc = "commit",
                              !.op = "create_client", !.group = g,
                              !.ip = assigned_ip, !.name = name]]
               /\ UNCHANGED last
    /\ NoEffect

\* create_client: db.session.add, commit, client.save_client_config()
CommitCreateClient(t) ==
    /\ req[t].pc = "commit"
    /\ Commit(InsertClient(World, req[t].group, req[t].name, req[t].ip, EnvOk))
    /\ req' = [req EXCEPT ![t].pc = "render", ![t].client = MaxOf(DOMAIN clients) + 1]
    /\ UNCHANGED last

\* update_client up to client.save_client_config()
BeginUpdateClient(t, c, data) ==
    /\ req[t].pc = "idle"
    /\ c \in DOMAIN clients
    /\ Commit(StoreClientUpdate(World, c, data, EnvOk))
    /\ req' = [req EXCEPT ![t] = [Idle EXCEPT !.pc = "render", !.op = "update_client",
                        !.group = clients[c].group_id, !.client = c,
                        !.ip = clients[c].assigned_ip]]
    /\ UNCHANGED last

\* delete_client up to the removal of the client's file
BeginDeleteClient(t, c) ==
    /\ req[t].pc = "idle"
    /\ c \in DOMAIN clients
    /\ Commit(RemoveClient(World, c))
    /\ req' = [req EXCEPT ![t] = [Idle EXCEPT !.pc = "render", !.op = "delete_client",
                        !.group = clients[c].group_id, !.client = c,
                        !.ip = clients[c].assigned_ip]]
    /\ UNCHANGED last

\* save_server_config: os.makedirs and config_content = generate_server_config()
RenderServerConfig(t) ==
    /\ req[t].pc = "render"
    /\ dirs' = dirs \cup {get_group_config_dir(groups[req[t].group])}
    /\ req' = [req EXCEPT ![t].pc = "write",
                          ![t].rendered = generate_server_config(World, req[t].group)]
    /\ calls' = <<>>
    /\ raised' = FALSE
    /\ UNCHANGED <<groups, clients, fs, wg, last, wg_warning_shown>>

\* save_server_config from f.write(config_content) on, and the response
WriteRenderedConfig(t) ==
    /\ req[t].pc = "write"
    /\ Commit(FinishServerConfig(
                 WriteServerConfig(World, req[t].group, req[t].rendered),
                 req[t].group, EnvOk))
    /\ last' = Resp(req[t].op, IF req[t].op = "create_client" THEN 201 ELSE 200,
                    req[t].group, req[t].client, req[t].ip, "none")
    /\ req' = [req EXCEPT ![t] = Idle]

NextConc ==
    \/ ConcCreateGroup
    \/ \E t \in Workers, g \in DOMAIN groups : BeginCreateClient(t, g, <<"a">>)
    \/ \E t \in Workers : CommitCreateClient(t)
    \/ \E t \in Workers, c \in DOMAIN clients, data \in ActiveInputs :
          BeginUpdateClient(t, c, data)
    \/ \E t \in Workers, c \in DOMAIN clients : BeginDeleteClient(t, c)
    \/ \E t \in Workers : RenderServerConfig(t)
    \/ \E t \in Workers : WriteRenderedConfig(t)

SpecConc == Init /\ [][NextConc]_vars

\* C2: concurrent create_client requests never commit two clients of one
\* group with the same assigned_ip
C2_NoDuplicateAddress ==
    \A c1 \in DOMAIN clients, c2 \in DOMAIN clients :
        (c1 # c2 /\ clients[c1].group_id = clients[c2].group_id)
            => clients[c1].assigned_ip # clients[c2].assigned_ip

\* the public keys of the peers a server configuration lists
FilePeers(config) ==
    {config[i][2] : i \in {k \in 1..Len(config) :
                             /\ Len(config[k]) = 2
                             /\ config[k][1] = "PublicKey = "}}

AllIdle == \A t \in Workers : req[t].pc = "idle"

\* C4: once every request has completed, the server config file of a group
\* lists exactly the committed active clients of the group as peers
C4_FileMatchesCommittedPeers ==
    AllIdle =>
        \A g \in DOMAIN groups :
            /\ ServerFilePath(groups[g]) \in DOMAIN fs
            /\ FilePeers(fs[ServerFilePath(groups[g])])
                  = {clients[c].public_key : c \in ActiveClientsOf(World, g)}

(***************************************************************************)
(* SpecHang: the subprocess.run calls of the tool wrappers, one step per   *)
(* spawned tool.  subprocess.run is given no timeout, so a worker leaves a *)
(* call only when the tool exits.                                          *)
(***************************************************************************)
HangOps == {"start", "stop", "reload", "stats", "keygen"}

\* the tools an operation runs, in the order of its subprocess.run calls
ToolSequence(op) ==
    CASE op = "start" -> <<"show", "up">>
      [] op = "stop" -> <<"down">>
      [] op = "reload" -> <<"down", "show", "up">>
      [] op = "stats" -> <<"dump">>
      [] op = "keygen" -> <<"genkey", "pubkey">>

\* the calls made with check=True: a non-zero exit raises CalledProcessError
Checked == {"up", "dump", "genkey", "pubkey"}

ToolSites == {"down", "show", "up", "dump", "genkey", "pubkey"}

\* a worker (a request thread or the statistics collector) enters an
\* operation and blocks in its first subprocess.run
HangInvoke(t, op) ==
    /\ req[t].pc = "idle"
    /\ req' = [req EXCEPT ![t] = [Idle EXCEPT !.pc = Head(ToolSequence(op)), !.op = op]]
    /\ UNCHANGED <<groups, clients, dirs, fs, wg, last, calls, raised, wg_warning_shown>>

\* the tool a worker waits for exits, with status 0 or not: the worker goes
\* on to the next subprocess.run of the operation, or to the return
HangToolExits(t, ok) ==
    /\ req[t].pc \in ToolSites
    /\ LET seq == ToolSequence(req[t].op)
           i == CHOOSE k \in 1..Len(seq) : seq[k] = req[t].pc
           next == IF i = Len(seq) \/ (~ok /\ req[t].pc \in Checked)
                   THEN "return"
                   ELSE seq[i + 1]
       IN req' = [req EXCEPT ![t].pc = next]
    /\ UNCHANGED <<groups, clients, dirs, fs, wg, last, calls, raised, wg_warning_shown>>

\* the operation returns its result to the caller
HangReturn(t) ==
    /\ req[t].pc = "return"
    /\ req' = [req EXCEPT ![t] = Idle]
    /\ UNCHANGED <<groups, clients, dirs, fs, wg, last, calls, raised, wg_warning_shown>>

NextHang ==
    \/ \E t \in Workers, op \in HangOps : HangInvoke(t, op)
    \/ \E t \in Workers, ok \in BOOLEAN : HangToolExits(t, ok)
    \/ \E t \in Workers : HangReturn(t)

\* a worker that can return does return; nothing makes a tool exit
SpecHang ==
    Init /\ [][NextHang]_vars /\ \A t \in Workers : WF_vars(HangReturn(t))

\* C20: every start, stop, reload, stats and key-generation operation that
\* has invoked a tool eventually returns, whether or not the tool exits
C20_OperationsReturn ==
    \A t \in Workers : (req[t].pc \in ToolSites) ~> (req[t].pc = "idle")

(***************************************************************************)
(* SpecDirs: groups are created under equal, case-differing and distinct   *)
(* names, renamed, started, stopped and deleted                            *)
(***************************************************************************)
MaxDirsGroups == 2
MaxDirsClientId == 1

DirsNames == {<<"A">>, <<"a">>, <<"b">>}

DirsCreateGroup ==
    \E name \in DirsNames :
        /\ Cardinality(DOMAIN groups) < MaxDirsGroups
        /\ MaxOf(DOMAIN groups) < MaxDirsGroups
        /\ CreateGroup(name, IF DOMAIN groups = {} THEN Net29 ELSE Net30, None, EnvOk)

DirsUpdateGroup ==
    \E g \in 1..MaxDirsGroups, name \in DirsNames :
        UpdateGroup(g, [name |-> name], EnvOk)

DirsCreateClient ==
    \E g \in DOMAIN groups :
        /\ MaxOf(DOMAIN clients) < MaxDirsClientId
        /\ CreateClient(g, <<"a">>, EnvOk)

DirsToggleWireguard == \E g \in DOMAIN groups : ToggleWireguard(g, EnvOk)

DirsDeleteGroup == \E g \in DOMAIN groups : DeleteGroup(g, EnvOk)

NextDirs ==
    \/ DirsCreateGroup
    \/ DirsUpdateGroup
    \/ DirsCreateClient
    \/ DirsToggleWireguard
    \/ DirsDeleteGroup

SpecDirs == Init /\ [][NextDirs]_vars

\* the files under the directories of the groups other than g are the same
\* before and after the step
OtherGroupsFilesKept(g) ==
    \A h \in DOMAIN groups \ {g} :
        \A path \in DOMAIN fs :
            SubSeq(path, 1, 2) = get_group_config_dir(groups[h])
                => path \in DOMAIN fs' /\ fs'[path] = fs[path]

\* C24: any two distinct groups have distinct configuration directories,
\* however they are named or renamed, and a request that saves, prunes or
\* deletes the files of one group leaves the files of every other group as
\* they were
C24_DirectoriesDisjoint ==
    [][/\ \A g \in DOMAIN groups' : \A h \in DOMAIN groups' \ {g} :
              get_group_config_dir(groups'[g]) # get_group_config_dir(groups'[h])
       /\ last'.status \notin {400, 404} => OtherGroupsFilesKept(last'.group)]_vars

(***************************************************************************)
(* sanitize_interface_name (utils/helpers.py), over sequences of           *)
(* characters, and SpecSanitize, which applies it to bounded inputs        *)
(***************************************************************************)
Letters ==
    {"a", "b", "c", "d", "e", "f", "g", "h", "i", "j", "k", "l", "m",
     "n", "o", "p", "q", "r", "s", "t", "u", "v", "w", "x", "y", "z"}
Digits == {"0", "1", "2", "3", "4", "5", "6", "7", "8", "9"}

\* str.isalnum() on a character of a lower-cased string
isalnum(c) == c \in Letters \cup Digits

\* name.lower()
lower(name) == [i \in 1..Len(name) |-> LowerChar(name[i])]

\* re.sub(r'[^a-z0-9\-]', '-', text)
HyphenateOthers(text) ==
    [i \in 1..Len(text) |-> IF isalnum(text[i]) \/ text[i] = "-" THEN text[i] ELSE "-"]

\* re.sub(r'-+', '-', text)
\* every run of hyphens becomes one hyphen; the text is handled in halves,
\* and a run that spans the cut is joined
RECURSIVE CollapseHyphens(_)
CollapseHyphens(text) ==
    IF Len(text) < 2 THEN text
    ELSE LET mid == Len(text) \div 2
             left == CollapseHyphens(SubSeq(text, 1, mid))
             right == CollapseHyphens(SubSeq(text, mid + 1, Len(text)))
         IN IF left[Len(left)] = "-" /\ right[1] = "-"
            THEN left \o Tail(right)
            ELSE left \o right

\* the positions of text that hold no hyphen
NonHyphens(text) == {i \in 1..Len(text) : text[i] # "-"}

\* text.lstrip('-')
lstrip(text) ==
    IF NonHyphens(text) = {} THEN <<>>
    ELSE SubSeq(text, CHOOSE i \in NonHyphens(text) : \A j \in NonHyphens(text) : i <= j,
                Len(text))

\* text.rstrip('-')
rstrip(text) ==
    IF NonHyphens(text) = {} THEN <<>>
    ELSE SubSeq(text, 1, MaxOf(NonHyphens(text)))

\* text.strip('-')
strip(text) == rstrip(lstrip(text))

\* sanitize_interface_name up to the truncation
SanitizedAndCut(name, max_length) ==
    LET stripped == strip(CollapseHyphens(HyphenateOthers(lower(name))))
        prefixed == IF stripped # <<>> /\ ~isalnum(stripped[1])
                    THEN <<"w", "g", "-">> \o stripped
                    ELSE stripped
    IN IF Len(prefixed) > max_length
       THEN rstrip(SubSeq(prefixed, 1, max_length))
       ELSE prefixed

\* sanitize_interface_name without its last step, the 'wg0' fallback
sanitize_without_fallback(name, max_length) == SanitizedAndCut(name, max_length)

\* utils.helpers.sanitize_interface_name
sanitize_interface_name(name, max_length) ==
    LET sanitized == SanitizedAndCut(name, max_length)
    IN IF sanitized = <<>> \/ ~isalnum(sanitized[1])
       THEN <<"w", "g", "0">>
       ELSE sanitized

\* the default of the parameter max_length
DefaultMaxLength == 15

MaxPatternLen == 3
SanitizeAlphabet == {"a", "A", "0", "-", " ", "/"}
Repeats == {1, 6, 67}

RECURSIVE Repeated(_, _)
Repeated(pattern, n) == IF n = 0 THEN <<>> ELSE pattern \o Repeated(pattern, n - 1)

\* the names handed to the function: a pattern of characters, repeated
SanitizeInputs ==
    {Repeated(pattern, n) :
        pattern \in UNION {[1..k -> SanitizeAlphabet] : k \in 0..MaxPatternLen},
        n \in Repeats}

\* a caller holds a name and has not yet called the function
InitSanitize ==
    /\ groups = <<>>
    /\ clients = <<>>
    /\ dirs = {}
    /\ fs = <<>>
    /\ wg = <<>>
    /\ last \in {[op |-> "name", status |-> 0, name |-> name, ret |-> <<>>] :
                    name \in SanitizeInputs}
    /\ req = [t \in Workers |-> Idle]
    /\ calls = <<>>
    /\ raised = FALSE
    /\ wg_warning_shown = FALSE

Sanitize ==
    /\ last.op = "name"
    /\ last' = [last EXCEPT !.op = "sanitize_interface_name",
                            !.ret = sanitize_interface_name(last.name, DefaultMaxLength)]
    /\ UNCHANGED <<groups, clients, dirs, fs, wg, req, calls, raised, wg_warning_shown>>

NextSanitize == Sanitize

SpecSanitize == InitSanitize /\ [][NextSanitize]_vars

\* text matches ^[a-z0-9][a-z0-9\-]{0,14}$
MatchesInterfacePattern(text) ==
    /\ Len(text) \in 1..15
    /\ isalnum(text[1])
    /\ \A i \in 1..Len(text) : isalnum(text[i]) \/ text[i] = "-"

\* C26: sanitize_interface_name is total: for every input, the empty string,
\* a string of symbols only and a string of 200 characters included, the
\* result is non-empty, at most 15 characters long and matches
\* ^[a-z0-9][a-z0-9-]{0,14}$
C26_SanitizeTotal ==
    last.op = "sanitize_interface_name"
        => /\ last.ret # <<>>
           /\ Len(last.ret) <= 15
           /\ MatchesInterfacePattern(last.ret)

\* the function has answered the empty name and a name of symbols only with
\* the fallback, or has cut a name of 200 characters or more to 15
C26_Witness ==
    /\ last.op = "sanitize_interface_name"
    /\ Len(last.name) >= 200
    /\ Len(last.ret) = 15

C26_WitnessFallback ==
    /\ last.op = "sanitize_interface_name"
    /\ last.name # <<>>
    /\ \A i \in 1..Len(last.name) : ~isalnum(LowerChar(last.name[i]))
    /\ last.ret = <<"w", "g", "0">>

(***************************************************************************)
(* Interface names of the groups of SpecDirs                               *)
(***************************************************************************)
\* 'wg-' followed by the sanitized group name, 15 characters at most
NameDerivedInterface(name) ==
    <<"w", "g", "-">> \o sanitize_interface_name(name, DefaultMaxLength - 3)

\* C25: get_wireguard_interface_name returns 'wg-' followed by the sanitized
\* lower-case group name, at most 15 characters long and made of [a-z0-9-]
\* only
C25_InterfaceNamedAfterGroup ==
    \A g \in DOMAIN groups :
        LET ifname == get_wireguard_interface_name(g)
        IN /\ ifname = NameDerivedInterface(groups[g].name)
           /\ Len(ifname) <= 15
           /\ \A i \in 1..Len(ifname) : isalnum(ifname[i]) \/ ifname[i] = "-"

\* f"wg{id}": the name made of the id alone
NameOfId(id) == <<"w", "g", ToString(id)>>

MaxV6Groups == 2
MaxV6ClientId == 2

\* fd00::/126, fd00::1/126 (the same network, host bits set) and fd00::8/126
RangeV6A == <<0, 126>>
RangeV6AHost == <<1, 126>>
RangeV6B == <<8, 126>>
RangeV6Inputs == {NoRangeV6, RangeV6A, RangeV6AHost, RangeV6B, MalformedV6, VersionFour}

V6CreateGroup ==
    \E range_v6 \in RangeV6Inputs :
        /\ MaxOf(DOMAIN groups) < MaxV6Groups
        /\ CreateGroupV6(IF DOMAIN groups = {} THEN <<"A">> ELSE <<"b">>,
                         IF DOMAIN groups = {} THEN Net29 ELSE Net30,
                         range_v6, None, EnvOk)

V6UpdateGroup ==
    \E g \in 1..MaxV6Groups, range_v6 \in RangeV6Inputs :
        UpdateGroup(g, [ip_range_v6 |-> range_v6], EnvOk)

V6CreateClient ==
    \E g \in DOMAIN groups :
        /\ MaxOf(DOMAIN clients) < MaxV6ClientId
        /\ CreateClient(g, <<"a">>, EnvOk)

NextV6 ==
    \/ V6CreateGroup
    \/ V6UpdateGroup
    \/ V6CreateClient

SpecV6 == Init /\ [][NextV6]_vars

\* the host addresses of an IPv6 range
HostSetV6(range_v6) == Range(hosts_v6(ip_network_v6(range_v6)))

\* C30: whenever a group has an ip_range_v6, its server_ip_v6 is a host
\* address of that range, and the assigned_ip_v6 of every client of the group
\* that has one is a host address of that range, differs from the server's
\* and from that of every other client of the group
C30_V6AddressesInRange ==
    \A g \in DOMAIN groups :
        Len(groups[g].ip_range_v6) # 0 =>
            LET addressed == {c \in ClientsOf(World, g) : clients[c].assigned_ip_v6 # None}
            IN /\ groups[g].server_ip_v6 \in HostSetV6(groups[g].ip_range_v6)
               /\ \A c \in addressed :
                     /\ clients[c].assigned_ip_v6 \in HostSetV6(groups[g].ip_range_v6)
                     /\ clients[c].assigned_ip_v6 # groups[g].server_ip_v6
                     /\ \A d \in addressed \ {c} :
                           clients[d].assigned_ip_v6 # clients[c].assigned_ip_v6

(***************************************************************************)
(* SpecKeys: the worker threads of one process call generate_keypair and   *)
(* generate_preshared_key; calls holds the warnings the process has logged *)
(***************************************************************************)
MaxWarnings == 2

KeyOps == {"generate_keypair", "generate_preshared_key"}

\* the warnings logged so far
Warnings == ToolCalls(calls, {"warning"})

\* a thread enters one of the two functions
KeysInvoke(t, op) ==
    /\ req[t].pc = "idle"
    /\ Len(calls) < MaxWarnings
    /\ req' = [req EXCEPT ![t] = [Idle EXCEPT !.pc = "run", !.op = op]]
    /\ UNCHANGED <<groups, clients, dirs, fs, wg, last, calls, raised, wg_warning_shown>>

\* subprocess.run(['wg', ...], check=True) returns, or raises SubprocessError
\* or FileNotFoundError, which the except clause catches
KeysToolExits(t, ok) ==
    /\ req[t].pc = "run"
    /\ req' = [req EXCEPT ![t].pc =
                  IF ok THEN "return"
                  ELSE IF req[t].op = "generate_keypair" THEN "check"
                  ELSE "warn"]
    /\ UNCHANGED <<groups, clients, dirs, fs, wg, last, calls, raised, wg_warning_shown>>

\* generate_keypair: if not _wg_warning_shown
KeysCheckFlag(t) ==
    /\ req[t].pc = "check"
    /\ req' = [req EXCEPT ![t].pc = IF wg_warning_shown THEN "return" ELSE "warn"]
    /\ UNCHANGED <<groups, clients, dirs, fs, wg, last, calls, raised, wg_warning_shown>>

\* logger.warning(...) of the fallback branch
KeysWarn(t) ==
    /\ req[t].pc = "warn"
    /\ calls' = Append(calls, Call("warning", req[t].op, FALSE, FALSE, FALSE))
    /\ req' = [req EXCEPT ![t].pc =
                  IF req[t].op = "generate_keypair" THEN "set" ELSE "return"]
    /\ UNCHANGED <<groups, clients, dirs, fs, wg, last, raised, wg_warning_shown>>

\* generate_keypair: _wg_warning_shown = True
KeysSetFlag(t) ==
    /\ req[t].pc = "set"
    /\ wg_warning_shown' = TRUE
    /\ req' = [req EXCEPT ![t].pc = "return"]
    /\ UNCHANGED <<groups, clients, dirs, fs, wg, last, calls, raised>>

\* the function returns its key or keys
KeysReturn(t) ==
    /\ req[t].pc = "return"
    /\ req' = [req EXCEPT ![t] = Idle]
    /\ UNCHANGED <<groups, clients, dirs, fs, wg, last, calls, raised, wg_warning_shown>>

NextKeys ==
    \/ \E t \in Workers, op \in KeyOps : KeysInvoke(t, op)
    \/ \E t \in Workers, ok \in BOOLEAN : KeysToolExits(t, ok)
    \/ \E t \in Workers : KeysCheckFlag(t)
    \/ \E t \in Workers : KeysWarn(t)
    \/ \E t \in Workers : KeysSetFlag(t)
    \/ \E t \in Workers : KeysReturn(t)

SpecKeys == Init /\ [][NextKeys]_vars

\* C28: across every sequence and interleaving of key-generation calls the
\* fallback warning is logged at most once, the first call that falls back
\* logs it, and the flag, once set, is never reset
C28_WarnedExactlyOnce ==
    [][/\ Cardinality(ToolCalls(calls', {"warning"})) <= 1
       /\ (\E t \in Workers : req[t].pc \in {"warn", "set"} /\ req'[t].pc = "return")
              => ToolCalls(calls', {"warning"}) # {}
       /\ wg_warning_shown => wg_warning_shown']_vars

(***************************************************************************)
(* SpecPeers: clients of one group whose allowed_ips and can_address_peers *)
(* are changed by update_client                                            *)
(***************************************************************************)
MaxPeersClientId == 2

\* '10.0.0.0/8'
PrivateNet == <<"1", "0", ".", "0", ".", "0", ".", "0", "/", "8">>

\* f"{address}/32": the route to one peer
HostRoute(addr) == DottedQuad(addr) \o <<"/", "3", "2">>

\* allowed_ips payloads: the default, a private network, the address of the
\* first client of the group, the empty string
AllowedIpsInputs == {DefaultAllowedIps, PrivateNet, HostRoute(Ip(10, 0, 0, 10)), <<>>}

PeersCreateGroup ==
    \E range_v6 \in {NoRangeV6, RangeV6A} :
        /\ DOMAIN groups = {}
        /\ CreateGroupV6(<<"A">>, Net29, range_v6, None, EnvOk)

PeersCreateClient ==
    \E g \in DOMAIN groups :
        /\ MaxOf(DOMAIN clients) < MaxPeersClientId
        /\ CreateClient(g, <<"c", ToString(MaxOf(DOMAIN clients) + 1)>>, EnvOk)

PeersUpdateClient ==
    \E c \in DOMAIN clients :
        \E data \in {[allowed_ips |-> x] : x \in AllowedIpsInputs}
                       \cup {[can_address_peers |-> b] : b \in BOOLEAN} :
            UpdateClient(c, data, EnvOk)

NextPeers ==
    \/ PeersCreateGroup
    \/ PeersCreateClient
    \/ PeersUpdateClient

SpecPeers == Init /\ [][NextPeers]_vars

\* the value of the AllowedIPs line of the client's configuration file
AllowedIPsOf(c) ==
    LET config == fs[ClientFilePath(World, c)]
        i == CHOOSE k \in 1..Len(config) :
                 Len(config[k]) = 2 /\ config[k][1] = "AllowedIPs = "
    IN config[i][2]

\* the subnet route or routes of the client's group
SubnetRoutes(c) ==
    LET group == groups[clients[c].group_id]
    IN RangeText(group.ip_range)
          \o (IF Len(group.ip_range_v6) # 0
              THEN <<",", " ">> \o RangeTextV6(group.ip_range_v6)
              ELSE <<>>)

\* AllowedIPs of the client names the address of another client of its group
ListsPeerAddress(c) ==
    \E d \in ClientsOf(World, clients[c].group_id) \ {c} :
        Contains(AllowedIPsOf(c), HostRoute(clients[d].assigned_ip))

\* the routes a client's configuration file must carry
AllowedIPsAsConfigured(c) ==
    IF clients[c].can_address_peers
    THEN AllowedIPsOf(c) = clients[c].allowed_ips
    ELSE IF Contains(clients[c].allowed_ips, FullTunnelV4)
    THEN AllowedIPsOf(c) = FullTunnel
    ELSE AllowedIPsOf(c) = SubnetRoutes(c)

\* C27: with can_address_peers false the AllowedIPs line is the group's
\* subnet route(s) unless allowed_ips contains 0.0.0.0/0, and the full
\* tunnel if it does; with can_address_peers true it is the client's
\* allowed_ips unchanged; and it never lists another peer's address
C27_AllowedIPsNeverListPeers ==
    \A c \in DOMAIN clients :
        /\ AllowedIPsAsConfigured(c)
        /\ ~ListsPeerAddress(c)

\* C27, amended: the same, where only a client whose can_address_peers is
\* false is sure never to list another peer's address
C27_RestrictedClientsListNoPeers ==
    \A c \in DOMAIN clients :
        /\ AllowedIPsAsConfigured(c)
        /\ ~clients[c].can_address_peers => ~ListsPeerAddress(c)

\* a client that may not address peers and asked for the route to the other
\* client's address carries the group's subnet routes only
C27_Witness ==
    \E c \in DOMAIN clients :
        /\ ~clients[c].can_address_peers
        /\ \E d \in DOMAIN clients \ {c} :
              clients[c].allowed_ips = HostRoute(clients[d].assigned_ip)
        /\ AllowedIPsOf(c) = SubnetRoutes(c)
        /\ Len(groups[clients[c].group_id].ip_range_v6) # 0

====
